---- MODULE Spec2Model ----
(***************************************************************************)
(* Dota 2 draft analyzer: the suggestion scoring engine (DraftAnalyzer,    *)
(* AdvancedDraftAnalyzer and its sub-analyzers), the integration layer,    *)
(* the caller-owned draft state, the suggestions route and the queueing    *)
(* OpenDota client (EnhancedOpenDotaClient).                               *)
(*                                                                         *)
(* Number scales.  JavaScript numbers are modelled by integers:            *)
(*   - the basic engine works on a 0..100 scale; the model counts in       *)
(*     hundredths of a point (50 is 5000), which is also the resolution    *)
(*     of calculateWinRate (toFixed(2));                                   *)
(*   - the advanced engine works on a 0..1 scale; the model counts in      *)
(*     1/6000 (0.05 is 300), so that the averages over 1, 3, 6, 10 or 15   *)
(*     pairs, over 3 windows and over 2 rates are exact;                   *)
(*   - a weighted advanced total is value * weight-in-percent, i.e. it is  *)
(*     counted in 1/600000.                                                *)
(***************************************************************************)
EXTENDS Integers, Sequences, FiniteSets, TLC

VARIABLES
  draftState,   \* the caller-owned DraftState: yourTeam, enemyTeam, currentPhase, currentPick
  heroes,       \* DraftAnalyzer.heroes / AdvancedDraftAnalyzer.heroes: hero ids in roster order
  heroStats,    \* DraftAnalyzer.heroStats: sequence of statistics records
  matchupData,  \* DraftAnalyzer.matchupData: Map<heroId, HeroMatchupData[]>
  call,         \* the last suggestion call on the current draft and store: arguments and returned list
  probe,        \* a pure function under test: its name, its input and its result
  route,        \* the suggestions route (POST): position, fetch results, response
  mutationData, \* suggestionsMutation.data of useDraft: the hero ids of the suggestions shown
  timers,       \* the pending setTimeout refreshes of the draft board, oldest first
  client,       \* the EnhancedOpenDotaClient: its fields and the position of its queue processor
  env           \* around the client: the clock, the callers' promises, the fetches of the window

vars == <<draftState, heroes, heroStats, matchupData, call, probe, route, mutationData, timers, client, env>>

(***************************************************************************)
(* Bounds of the model.                                                    *)
(***************************************************************************)
\* at most this many slots of the draft are filled at any time
MaxPicks == 2
\* addHeroToTeam is called at most this many times before a reset
MaxAdds == 3
\* the caller drafts heroes with ids 1..PickPool
PickPool == 3
\* longest enemy list and longest matchup list given to getCounterScore on its own
MaxEnemies == 2
\* largest team given to the lane optimizer on its own
MaxLaneTeam == 4

\* the longest team given to the synergy predictor on its own
MaxSynergyTeam == 3

\* the most refreshes of the draft board that wait for their timer at a time
MaxTimers == 1

\* the most heroes added on the draft board between two resets
MaxBoardAdds == 2

\* RATE_LIMIT.MAX_REQUESTS = config.OPENDOTA_RATE_LIMIT: the requests allowed per window
\* (1..300 by configuration, 60 by default)
MAX_REQUESTS == 2
\* maxQueueSize of the client (100 in the source)
maxQueueSize == 2
\* circuitBreakerThreshold of the client (5 in the source)
circuitBreakerThreshold == 2
\* the number of request() calls made on the client
MaxCalls == 3
\* the last instant of the client's clock
MaxClock == 4

(***************************************************************************)
(* Generic helpers.                                                        *)
(***************************************************************************)
Min(a, b) == IF a < b THEN a ELSE b

Max(a, b) == IF a > b THEN a ELSE b

\* Array.prototype.includes
Includes(s, x) == \E i \in DOMAIN s : s[i] = x

\* division rounded to the nearest integer, for non-negative a and positive b
RoundDiv(a, b) == (2 * a + b) \div (2 * b)

\* n twentieths (n * 0.05) on the advanced engine's scale
T(n) == 300 * n

RECURSIVE SumSeq(_)
SumSeq(s) == IF s = <<>> THEN 0 ELSE s[1] + SumSeq(Tail(s))

\* Array.prototype.slice(0, limit) for limit >= 0
Slice(s, limit) == SubSeq(s, 1, Min(limit, Len(s)))

(***************************************************************************)
(* The hero roster served by the hero data provider (types.ts Hero).       *)
(***************************************************************************)
Roster == <<
  [id |-> 1,  name |-> "antimage",       primary_attr |-> "agi", attack_type |-> "Melee",  roles |-> <<"Carry">>],
  [id |-> 2,  name |-> "axe",            primary_attr |-> "str", attack_type |-> "Melee",  roles |-> <<"Initiator", "Durable">>],
  [id |-> 3,  name |-> "bane",           primary_attr |-> "all", attack_type |-> "Ranged", roles |-> <<"Support", "Disabler">>],
  [id |-> 4,  name |-> "zuus",           primary_attr |-> "int", attack_type |-> "Ranged", roles |-> <<"Nuker">>],
  [id |-> 5,  name |-> "crystal_maiden", primary_attr |-> "int", attack_type |-> "Ranged", roles |-> <<"Support">>],
  [id |-> 6,  name |-> "drow_ranger",    primary_attr |-> "agi", attack_type |-> "Ranged", roles |-> <<"Carry", "Pusher">>],
  [id |-> 7,  name |-> "earthshaker",    primary_attr |-> "str", attack_type |-> "Melee",  roles |-> <<"Support", "Initiator">>],
  [id |-> 8,  name |-> "juggernaut",     primary_attr |-> "agi", attack_type |-> "Melee",  roles |-> <<"Carry", "Escape">>],
  [id |-> 9,  name |-> "mirana",         primary_attr |-> "all", attack_type |-> "Ranged", roles |-> <<"Carry", "Support", "Nuker">>],
  [id |-> 10, name |-> "invoker",        primary_attr |-> "int", attack_type |-> "Ranged", roles |-> <<"Nuker", "Escape">>],
  [id |-> 11, name |-> "pudge",          primary_attr |-> "str", attack_type |-> "Melee",  roles |-> <<"Disabler", "Durable">>],
  [id |-> 12, name |-> "sniper",         primary_attr |-> "agi", attack_type |-> "Ranged", roles |-> <<"Carry", "Nuker">>],
  [id |-> 13, name |-> "tiny",           primary_attr |-> "str", attack_type |-> "Melee",  roles |-> <<"Initiator">>]
>>

HeroIds == {Roster[i].id : i \in DOMAIN Roster}

\* the Hero object with the given id (the roster lists the heroes by ascending id, from 1)
Hero(id) == Roster[id]

\* hero.roles?.includes(role)
HasRole(h, role) == Includes(h.roles, role)

(***************************************************************************)
(* Hero statistics served by the data provider (types.ts HeroStats).       *)
(* bracket_pick stands for the sum of the "1_pick" .. "8_pick" fields.     *)
(* Heroes 10..13 have no statistics record.                                *)
(***************************************************************************)
StatsTable == <<
  [id |-> 1, pub_pick |-> 1000, pub_win |-> 520, pro_pick |-> 0,   turbo_picks |-> 1000, bracket_pick |-> 1000],
  [id |-> 2, pub_pick |-> 1000, pub_win |-> 480, pro_pick |-> 500, turbo_picks |-> 500,  bracket_pick |-> 1000],
  [id |-> 3, pub_pick |-> 500,  pub_win |-> 250, pro_pick |-> 0,   turbo_picks |-> 0,    bracket_pick |-> 500],
  [id |-> 4, pub_pick |-> 800,  pub_win |-> 440, pro_pick |-> 0,   turbo_picks |-> 200,  bracket_pick |-> 800],
  [id |-> 5, pub_pick |-> 400,  pub_win |-> 212, pro_pick |-> 200, turbo_picks |-> 200,  bracket_pick |-> 400],
  [id |-> 6, pub_pick |-> 1000, pub_win |-> 500, pro_pick |-> 0,   turbo_picks |-> 0,    bracket_pick |-> 1000],
  [id |-> 7, pub_pick |-> 500,  pub_win |-> 270, pro_pick |-> 0,   turbo_picks |-> 500,  bracket_pick |-> 500],
  [id |-> 8, pub_pick |-> 0,    pub_win |-> 0,   pro_pick |-> 0,   turbo_picks |-> 0,    bracket_pick |-> 0],
  [id |-> 9, pub_pick |-> 600,  pub_win |-> 330, pro_pick |-> 0,   turbo_picks |-> 600,  bracket_pick |-> 600]
>>

\* heroStats.find((stat) => stat.id === heroId): the index of the record, 0 when there is none
FindStat(stats, heroId) ==
  IF \E i \in DOMAIN stats : stats[i].id = heroId
  THEN CHOOSE i \in DOMAIN stats : stats[i].id = heroId /\ \A j \in 1..(i - 1) : stats[j].id # heroId
  ELSE 0

\* opendota.ts calculateWinRate: a percentage with two decimals, in hundredths
calculateWinRate(wins, games) ==
  IF games = 0 THEN 0 ELSE RoundDiv(wins * 10000, games)

(***************************************************************************)
(* The draft state.                                                        *)
(***************************************************************************)
TeamSize == 5

NoHero == 0

EmptyTeam == [i \in 1..TeamSize |-> NoHero]

EmptyDraft == [yourTeam |-> EmptyTeam, enemyTeam |-> EmptyTeam,
               currentPhase |-> "pick", currentPick |-> 0]

\* team.filter((h) => h !== null): the heroes of a team in slot order
Picked(team) == SelectSeq(team, LAMBDA h : h # NoHero)

\* team.findIndex((h) => h === null), 1-based; 0 when the team is full
FirstEmpty(team) ==
  IF \E i \in DOMAIN team : team[i] = NoHero
  THEN CHOOSE i \in DOMAIN team : team[i] = NoHero /\ \A j \in 1..(i - 1) : team[j] # NoHero
  ELSE 0

FilledSlots(ds) == Len(Picked(ds.yourTeam)) + Len(Picked(ds.enemyTeam))

(***************************************************************************)
(* DraftAnalyzer: the basic engine (0..100 scale, in hundredths).          *)
(***************************************************************************)
\* getMetaScore
getMetaScore(stats, heroId) ==
  LET k == FindStat(stats, heroId) IN
  IF k = 0 THEN 5000
  ELSE LET heroStat == stats[k]
           currentWinRate == calculateWinRate(heroStat.pub_win, heroStat.pub_pick)
           normalizedWinRate == (currentWinRate - 4500) * 10
           totalPicks == heroStat.pub_pick + heroStat.pro_pick + heroStat.bracket_pick
           normalizedPickRate == Min((heroStat.pub_pick * 10000) \div Max(totalPicks, 1), 10000)
       IN Max(0, Min(10000, (normalizedWinRate + normalizedPickRate) \div 2))

\* matchups.find((m) => m.hero_id === enemy.id): the index of the record, 0 when there is none
FindMatchup(matchups, enemyId) ==
  IF \E i \in DOMAIN matchups : matchups[i].hero_id = enemyId
  THEN CHOOSE i \in DOMAIN matchups :
         matchups[i].hero_id = enemyId /\ \A j \in 1..(i - 1) : matchups[j].hero_id # enemyId
  ELSE 0

\* the sample-size test of getCounterScore
ValidSample(matchup) == matchup.games_played > 10

\* the loop of getCounterScore: <<totalScore, validMatchups>> after the enemies from index i on
RECURSIVE CounterLoop(_, _, _, _, _)
CounterLoop(matchups, enemyHeroes, i, totalScore, validMatchups) ==
  IF i > Len(enemyHeroes) THEN <<totalScore, validMatchups>>
  ELSE LET k == FindMatchup(matchups, enemyHeroes[i]) IN
       IF k # 0 /\ ValidSample(matchups[k])
       THEN CounterLoop(matchups, enemyHeroes, i + 1,
                        totalScore + calculateWinRate(matchups[k].wins, matchups[k].games_played),
                        validMatchups + 1)
       ELSE CounterLoop(matchups, enemyHeroes, i + 1, totalScore, validMatchups)

\* getCounterScore
getCounterScore(store, heroId, enemyHeroes) ==
  IF Len(enemyHeroes) = 0 THEN 5000
  ELSE IF heroId \notin DOMAIN store THEN 5000
  ELSE LET r == CounterLoop(store[heroId], enemyHeroes, 1, 0, 0) IN
       IF r[2] > 0 THEN r[1] \div r[2] ELSE 5000

\* teamHeroes.flatMap((h) => h.roles)
RECURSIVE FlatRoles(_)
FlatRoles(team) ==
  IF team = <<>> THEN <<>> ELSE Hero(team[1]).roles \o FlatRoles(Tail(team))

\* getSynergyScore
getSynergyScore(hs, heroId, teamHeroes) ==
  IF Len(teamHeroes) = 0 THEN 5000
  ELSE IF ~Includes(hs, heroId) THEN 5000
  ELSE LET heroRoles == Hero(heroId).roles
           teamRoles == FlatRoles(teamHeroes)
           b1 == IF Includes(heroRoles, "Support") /\ Includes(teamRoles, "Carry") THEN 1000 ELSE 0
           b2 == IF Includes(heroRoles, "Initiator") /\ Includes(teamRoles, "Nuker") THEN 800 ELSE 0
           b3 == IF Includes(heroRoles, "Disabler") /\ Includes(teamRoles, "Carry") THEN 600 ELSE 0
           roleOverlap == Len(SelectSeq(heroRoles, LAMBDA role : Includes(teamRoles, role)))
       IN Max(0, Min(10000, 5000 + b1 + b2 + b3 - roleOverlap * 500))

\* getProScore
getProScore(stats, heroId) ==
  LET k == FindStat(stats, heroId) IN
  IF k = 0 THEN 5000
  ELSE LET heroStat == stats[k]
           totalPicks == heroStat.pub_pick + heroStat.pro_pick + heroStat.turbo_picks
           pickRate == IF totalPicks > 0 THEN (heroStat.pub_pick * 10000) \div totalPicks ELSE 5000
       IN Min(pickRate, 10000)

\* getConfidenceLevel; finalScore is in thousandths of a point
getConfidenceLevel(finalScore, enemyPickCount) ==
  IF enemyPickCount >= 4 /\ finalScore > 70000 THEN "high"
  ELSE IF enemyPickCount >= 2 /\ finalScore > 60000 THEN "medium"
  ELSE "low"

\* calculateHeroScore: the DraftSuggestion of one hero (the reasoning strings are left out)
calculateHeroScore(hs, stats, store, heroId, ds) ==
  LET enemyHeroes == Picked(ds.enemyTeam)
      teamHeroes == Picked(ds.yourTeam)
      metaScore == getMetaScore(stats, heroId)
      counterScore == getCounterScore(store, heroId, enemyHeroes)
      synergyScore == getSynergyScore(hs, heroId, teamHeroes)
      proScore == getProScore(stats, heroId)
      finalScore == metaScore * 2 + counterScore * 4 + synergyScore * 3 + proScore * 1
      k == FindStat(stats, heroId)
  IN [hero |-> heroId,
      score |-> (finalScore + 500) \div 1000,
      win_rate |-> IF k # 0 THEN calculateWinRate(stats[k].pub_win, stats[k].pub_pick) ELSE 5000,
      confidence |-> getConfidenceLevel(finalScore, Len(enemyHeroes)),
      counter |-> counterScore]

\* new Set([...yourTeam ids, ...enemyTeam ids])
pickedHeroes(ds) ==
  ({ds.yourTeam[i] : i \in DOMAIN ds.yourTeam} \cup {ds.enemyTeam[i] : i \in DOMAIN ds.enemyTeam})
    \ {NoHero}

\* an optional role filter: absent (undefined) or a list of roles
NoFilter == [present |-> FALSE, roles |-> <<>>]

Filter(roles) == [present |-> TRUE, roles |-> roles]

\* roleFilter.some((filterRole) => heroRoles.includes(filterRole))
hasMatchingRole(heroId, roles) ==
  \E i \in DOMAIN roles : Includes(Hero(heroId).roles, roles[i])

\* the insertion of x into a list sorted by non-increasing score, after its equals
RECURSIVE InsertByScore(_, _)
InsertByScore(x, sorted) ==
  IF sorted = <<>> THEN <<x>>
  ELSE IF sorted[1].score >= x.score THEN <<sorted[1]>> \o InsertByScore(x, Tail(sorted))
  ELSE <<x>> \o sorted

\* the sort as a bug would have it: the list is left in roster order
SortUnsorted(s) == s

\* suggestions.sort((a, b) => b.score - a.score): a stable sort by non-increasing score
RECURSIVE SortByScore(_)
SortByScore(s) ==
  IF s = <<>> THEN <<>>
  ELSE InsertByScore(s[Len(s)], SortByScore(SubSeq(s, 1, Len(s) - 1)))

\* the availability test of generateSuggestions: !pickedHeroes.has(hero.id)
IsAvailable(heroId, ds) == heroId \notin pickedHeroes(ds)

\* the role test as a bug would have it: the filter is ignored
PassesRoleFilterIgnored(heroId, roleFilter) == TRUE

\* the role test of generateSuggestions
PassesRoleFilter(heroId, roleFilter) ==
  IF roleFilter.present /\ Len(roleFilter.roles) > 0
  THEN hasMatchingRole(heroId, roleFilter.roles)
  ELSE TRUE

\* DraftAnalyzer.generateSuggestions
generateSuggestions(hs, stats, store, ds, roleFilter, limit) ==
  LET availableHeroes == SelectSeq(hs, LAMBDA h : IsAvailable(h, ds))
      matching == SelectSeq(availableHeroes, LAMBDA h : PassesRoleFilter(h, roleFilter))
      suggestions == [i \in DOMAIN matching |-> calculateHeroScore(hs, stats, store, matching[i], ds)]
  IN Slice(SortByScore(suggestions), limit)

(***************************************************************************)
(* The sub-analyzers of the advanced engine (0..1 scale, in 1/6000).       *)
(* A hero is given as its Hero record, a team as a list of hero ids.       *)
(***************************************************************************)
\* an optional GameContext: expectedDuration 0, playstyle "none" and itemStrategy "none" are absent
NoContext == [expectedDuration |-> 0, playstyle |-> "none", itemStrategy |-> "none"]

\* hero.roles?.some((role) => list.includes(role))
SomeRoleIn(h, list) == \E i \in DOMAIN h.roles : Includes(list, h.roles[i])

\* the pair synergy as a bug would have it: the role bonus is given in either direction
predictHeroSynergyEitherWay(hero1, hero2) ==
  LET supportRoles == <<"Support", "Disabler">>
      coreRoles == <<"Carry", "Nuker", "Pusher">>
      compatible == \/ SomeRoleIn(hero1, supportRoles) /\ SomeRoleIn(hero2, coreRoles)
                    \/ SomeRoleIn(hero2, supportRoles) /\ SomeRoleIn(hero1, coreRoles)
      synergy == T(10) + (IF compatible THEN T(4) ELSE 0)
                       + (IF hero1.attack_type # hero2.attack_type THEN T(1) ELSE 0)
  IN Min(T(20), Max(0, synergy))

\* MLSynergyPredictor.predictHeroSynergy
predictHeroSynergy(hero1, hero2) ==
  LET supportRoles == <<"Support", "Disabler">>
      coreRoles == <<"Carry", "Nuker", "Pusher">>
      hero1IsSupport == SomeRoleIn(hero1, supportRoles)
      hero2IsCore == SomeRoleIn(hero2, coreRoles)
      synergy == T(10) + (IF hero1IsSupport /\ hero2IsCore THEN T(4) ELSE 0)
                       + (IF hero1.attack_type # hero2.attack_type THEN T(1) ELSE 0)
  IN Min(T(20), Max(0, synergy))

\* the double loop of predictTeamSynergy: the sum over the pairs i < j
PairSum(team) ==
  SumSeq([k \in 1..(Len(team) * Len(team)) |->
            LET i == ((k - 1) \div Len(team)) + 1
                j == ((k - 1) % Len(team)) + 1
            IN IF i < j THEN predictHeroSynergy(Hero(team[i]), Hero(team[j])) ELSE 0])

\* MLSynergyPredictor.predictTeamSynergy
predictTeamSynergy(team) ==
  IF Len(team) < 2 THEN T(10)
  ELSE LET pairCount == (Len(team) * (Len(team) - 1)) \div 2
       IN IF pairCount > 0 THEN PairSum(team) \div pairCount ELSE T(10)

\* the item builds as a bug would have them: the game context is not looked at
generateItemBuildsNoContext(hero, gameContext) ==
  (IF HasRole(hero, "Carry")
   THEN <<[name |-> "Carry Build", effectiveness |-> T(17), gamePhase |-> "mid"]>> ELSE <<>>)
  \o (IF HasRole(hero, "Support")
      THEN <<[name |-> "Support Build", effectiveness |-> T(16), gamePhase |-> "early"]>> ELSE <<>>)
  \o (IF HasRole(hero, "Initiator")
      THEN <<[name |-> "Initiator Build", effectiveness |-> T(15), gamePhase |-> "mid"]>> ELSE <<>>)
  \o (IF HasRole(hero, "Nuker")
      THEN <<[name |-> "Nuker Build", effectiveness |-> T(18), gamePhase |-> "mid"]>> ELSE <<>>)

\* ItemBuildAnalyzer.generateItemBuilds (the item lists and their timings are left out)
generateItemBuilds(hero, gameContext) ==
  LET isEarlyGame == gameContext.expectedDuration # 0 /\ gameContext.expectedDuration < 30
      isLateGame == gameContext.expectedDuration # 0 /\ gameContext.expectedDuration > 45
      isAggressive == gameContext.playstyle = "aggressive"
  IN (IF HasRole(hero, "Carry")
      THEN <<[name |-> IF isEarlyGame THEN "Early Game Carry" ELSE "Carry Build",
              effectiveness |-> IF isAggressive THEN T(18) ELSE T(17),
              gamePhase |-> IF isEarlyGame THEN "early" ELSE "mid"]>>
      ELSE <<>>)
     \o (IF HasRole(hero, "Support")
         THEN <<[name |-> "Support Build", effectiveness |-> T(16), gamePhase |-> "early"]>> ELSE <<>>)
     \o (IF HasRole(hero, "Initiator")
         THEN <<[name |-> "Initiator Build", effectiveness |-> T(15), gamePhase |-> "mid"]>> ELSE <<>>)
     \o (IF HasRole(hero, "Nuker")
         THEN <<[name |-> "Nuker Build", effectiveness |-> T(18),
                 gamePhase |-> IF isLateGame THEN "late" ELSE "mid"]>>
         ELSE <<>>)

\* ItemBuildAnalyzer.calculateItemSynergy
calculateItemSynergy(hero, teamHeroes) ==
  LET synergy == T(10) + (IF HasRole(hero, "Support")
                             /\ \E i \in DOMAIN teamHeroes : HasRole(Hero(teamHeroes[i]), "Carry")
                          THEN T(6) ELSE 0)
  IN Min(T(20), synergy)

\* the positions claimed by the roles of the given heroes
takenPositions(teamHeroes) ==
  {pos \in 1..5 : \E i \in DOMAIN teamHeroes :
     LET h == Hero(teamHeroes[i]) IN
       \/ pos = 1 /\ HasRole(h, "Carry")
       \/ pos = 2 /\ HasRole(h, "Nuker")
       \/ pos = 3 /\ HasRole(h, "Initiator")
       \/ pos = 5 /\ HasRole(h, "Support")}

\* determineOptimalPosition with the claimed positions seeded from the other heroes only
determineOptimalPositionOthersOnly(hero, teamHeroes) ==
  LET taken == takenPositions(SelectSeq(teamHeroes, LAMBDA id : id # hero.id)) IN
  IF HasRole(hero, "Carry") /\ 1 \notin taken THEN 1
  ELSE IF HasRole(hero, "Nuker") /\ 2 \notin taken THEN 2
  ELSE IF HasRole(hero, "Initiator") /\ 3 \notin taken THEN 3
  ELSE IF HasRole(hero, "Support") /\ 5 \notin taken THEN 5
  ELSE IF \E pos \in 1..5 : pos \notin taken
       THEN CHOOSE pos \in 1..5 : pos \notin taken /\ \A q \in 1..(pos - 1) : q \in taken
       ELSE 4

\* LaneOptimizer.determineOptimalPosition
determineOptimalPosition(hero, teamHeroes) ==
  LET taken == takenPositions(teamHeroes) IN
  IF HasRole(hero, "Carry") /\ 1 \notin taken THEN 1
  ELSE IF HasRole(hero, "Nuker") /\ 2 \notin taken THEN 2
  ELSE IF HasRole(hero, "Initiator") /\ 3 \notin taken THEN 3
  ELSE IF HasRole(hero, "Support") /\ 5 \notin taken THEN 5
  ELSE IF \E pos \in 1..5 : pos \notin taken
       THEN CHOOSE pos \in 1..5 : pos \notin taken /\ \A q \in 1..(pos - 1) : q \in taken
       ELSE 4

\* LaneOptimizer.calculatePositionConfidence
calculatePositionConfidence(hero, position) ==
  LET confidence ==
        T(10)
        + (IF position = 1 /\ HasRole(hero, "Carry") THEN T(8) ELSE 0)
        + (IF position = 2 /\ HasRole(hero, "Nuker") THEN T(8) ELSE 0)
        + (IF position = 3 /\ HasRole(hero, "Initiator") THEN T(8) ELSE 0)
        + (IF position = 4 /\ HasRole(hero, "Support") THEN T(6) ELSE 0)
        + (IF position = 5 /\ HasRole(hero, "Support") THEN T(8) ELSE 0)
        + (IF position = 1 /\ hero.primary_attr = "agi" THEN T(2) ELSE 0)
        + (IF position = 2 /\ hero.primary_attr = "int" THEN T(2) ELSE 0)
        + (IF position = 3 /\ hero.primary_attr = "str" THEN T(2) ELSE 0)
  IN Min(T(20), confidence)

\* optimizeLanes with each hero placed against the heroes before it in the input
optimizeLanesInOrder(team) ==
  [i \in DOMAIN team |->
     LET position == determineOptimalPosition(Hero(team[i]), SubSeq(team, 1, i - 1)) IN
       [position |-> position,
        hero |-> team[i],
        confidence |-> calculatePositionConfidence(Hero(team[i]), position)]]

\* LaneOptimizer.optimizeLanes: one assignment per hero, in input order
optimizeLanes(team) ==
  [i \in DOMAIN team |->
     LET position == determineOptimalPosition(Hero(team[i]), team) IN
       [position |-> position,
        hero |-> team[i],
        confidence |-> calculatePositionConfidence(Hero(team[i]), position)]]

\* TimingAnalyzer.calculateEarlyPower
calculateEarlyPower(hero) ==
  Min(T(20), T(10) + (IF hero.primary_attr = "str" THEN T(4) ELSE 0)
                   + (IF HasRole(hero, "Support") THEN T(2) ELSE 0)
                   + (IF HasRole(hero, "Nuker") THEN T(3) ELSE 0))

\* TimingAnalyzer.calculateMidPower
calculateMidPower(hero) ==
  Min(T(20), T(12) + (IF HasRole(hero, "Initiator") THEN T(4) ELSE 0)
                   + (IF HasRole(hero, "Nuker") THEN T(3) ELSE 0)
                   + (IF HasRole(hero, "Pusher") THEN T(2) ELSE 0))

\* TimingAnalyzer.calculateLatePower
calculateLatePower(hero) ==
  Min(T(20), T(10) + (IF HasRole(hero, "Carry") THEN T(6) ELSE 0)
                   + (IF hero.primary_attr = "agi" THEN T(3) ELSE 0)
                   + (IF HasRole(hero, "Durable") THEN T(2) ELSE 0))

\* the timing windows as a bug would have them: the early window always ends at 15
analyzeTimingWindowsFixedEarly(hero, gameContext) ==
  LET expectedDuration == IF gameContext.expectedDuration # 0 THEN gameContext.expectedDuration ELSE 40
  IN << [phase |-> "early", start |-> 0, end |-> 15, powerLevel |-> calculateEarlyPower(hero)],
        [phase |-> "mid", start |-> 15, end |-> 35, powerLevel |-> calculateMidPower(hero)],
        [phase |-> "late", start |-> 35, end |-> Max(60, expectedDuration),
         powerLevel |-> calculateLatePower(hero)] >>

\* TimingAnalyzer.analyzeTimingWindows (key items and objectives are left out)
analyzeTimingWindows(hero, gameContext) ==
  LET expectedDuration == IF gameContext.expectedDuration # 0 THEN gameContext.expectedDuration ELSE 40
      isAggressive == gameContext.playstyle = "aggressive"
  IN << [phase |-> "early", start |-> 0, end |-> IF isAggressive THEN 12 ELSE 15,
         powerLevel |-> calculateEarlyPower(hero)],
        [phase |-> "mid", start |-> 15, end |-> 35, powerLevel |-> calculateMidPower(hero)],
        [phase |-> "late", start |-> 35, end |-> Max(60, expectedDuration),
         powerLevel |-> calculateLatePower(hero)] >>

\* hero.roles?.length || 1
RoleCount(hero) == IF Len(hero.roles) = 0 THEN 1 ELSE Len(hero.roles)

\* ProSceneAnalyzer.calculateFirstPickRate
calculateFirstPickRate(hero) == IF HasRole(hero, "Support") THEN T(6) ELSE T(2)

\* ProSceneAnalyzer.calculateSituationalRate
calculateSituationalRate(hero) ==
  LET complexHeroes == <<"invoker", "meepo", "chen", "visage">>
      rate == T(8) + RoleCount(hero) * T(2)
              + (IF Includes(complexHeroes, hero.name) THEN T(4) ELSE 0)
  IN Min(T(18), rate)

(***************************************************************************)
(* AdvancedDraftAnalyzer: the advanced engine.                             *)
(***************************************************************************)
\* AdvancedDraftAnalyzer.calculateMetaScore
calculateMetaScore(hero) ==
  LET metaHeroes == <<"pudge", "invoker", "phantom_assassin", "sniper">>
  IN IF Includes(metaHeroes, hero.name) THEN T(16) ELSE T(10)

\* AdvancedDraftAnalyzer.calculateCounterScore
calculateCounterScore(hero, enemyTeam) ==
  IF Len(enemyTeam) = 0 THEN T(10)
  ELSE LET counterScore ==
             SumSeq([i \in DOMAIN enemyTeam |->
                       IF hero.attack_type = "Ranged" /\ Hero(enemyTeam[i]).attack_type = "Melee"
                       THEN T(2) ELSE 0])
       IN Min(T(20), counterScore + T(10))

\* AdvancedDraftAnalyzer.calculateSynergyScore
calculateSynergyScore(hero, yourTeam) ==
  IF Len(yourTeam) = 0 THEN T(10) ELSE predictTeamSynergy(Append(yourTeam, hero.id))

\* assignments.find((a) => a.hero.id === hero.id): the index, 0 when there is none
FindAssignment(assignments, heroId) ==
  IF \E i \in DOMAIN assignments : assignments[i].hero = heroId
  THEN CHOOSE i \in DOMAIN assignments :
         assignments[i].hero = heroId /\ \A j \in 1..(i - 1) : assignments[j].hero # heroId
  ELSE 0

\* AdvancedDraftAnalyzer.calculateLaneOptimizationScore
calculateLaneOptimizationScore(hero, yourTeam) ==
  LET assignments == optimizeLanes(Append(yourTeam, hero.id))
      k == FindAssignment(assignments, hero.id)
  IN IF k # 0 /\ assignments[k].confidence # 0 THEN assignments[k].confidence ELSE T(10)

\* AdvancedDraftAnalyzer.calculateTimingScore
calculateTimingScore(hero, gameContext) ==
  LET windows == analyzeTimingWindows(hero, gameContext)
  IN SumSeq([i \in DOMAIN windows |-> windows[i].powerLevel]) \div Len(windows)

\* AdvancedDraftAnalyzer.calculateProPatternScore
calculateProPatternScore(hero) ==
  (calculateFirstPickRate(hero) + calculateSituationalRate(hero)) \div 2

\* AdvancedDraftAnalyzer.calculateAdvancedScore: the ScoreBreakdown of one candidate
calculateAdvancedScore(hero, ds, gameContext) ==
  LET yourTeam == Picked(ds.yourTeam)
      enemyTeam == Picked(ds.enemyTeam)
  IN [meta |-> calculateMetaScore(hero),
      counter |-> calculateCounterScore(hero, enemyTeam),
      synergy |-> calculateSynergyScore(hero, yourTeam),
      itemSynergy |-> calculateItemSynergy(hero, yourTeam),
      laneOptimization |-> calculateLaneOptimizationScore(hero, yourTeam),
      timing |-> calculateTimingScore(hero, gameContext),
      proPattern |-> calculateProPatternScore(hero),
      mlSynergy |-> predictTeamSynergy(Append(yourTeam, hero.id))]

\* Object.entries(breakdown): the keys of a ScoreBreakdown in insertion order
BreakdownKeys ==
  <<"meta", "counter", "synergy", "itemSynergy", "laneOptimization", "timing", "proPattern", "mlSynergy">>

\* the weights as a bug would have them: those of the unused calculateAdvancedHeroScore
weightsLegacy ==
  [meta |-> 15, counter |-> 20, synergy |-> 15, itemSynergy |-> 15,
   laneOptimization |-> 10, timing |-> 10, proPattern |-> 10, mlSynergy |-> 5]

\* the weights of calculateTotalScore, in percent
weights ==
  [meta |-> 15, counter |-> 20, synergy |-> 20, itemSynergy |-> 15,
   laneOptimization |-> 10, timing |-> 10, proPattern |-> 5, mlSynergy |-> 5]

\* the reduce of calculateTotalScore over the first n entries
RECURSIVE ReduceTotal(_, _)
ReduceTotal(breakdown, n) ==
  IF n = 0 THEN 0
  ELSE ReduceTotal(breakdown, n - 1) + breakdown[BreakdownKeys[n]] * weights[BreakdownKeys[n]]

\* AdvancedDraftAnalyzer.calculateTotalScore, in 1/600000
calculateTotalScore(breakdown) == ReduceTotal(breakdown, Len(BreakdownKeys))

\* AdvancedDraftAnalyzer.matchesRoleFilter
matchesRoleFilter(hero, roles) == \E i \in DOMAIN hero.roles : Includes(roles, hero.roles[i])

\* the filter of generateAdvancedSuggestions as a bug would have it: the enemy team is not looked at
IsAdvancedCandidateOwnOnly(heroId, ds, roleFilter) ==
  /\ ~\E i \in DOMAIN ds.yourTeam : ds.yourTeam[i] # NoHero /\ ds.yourTeam[i] = heroId
  /\ (~roleFilter.present \/ Len(roleFilter.roles) = 0 \/ matchesRoleFilter(Hero(heroId), roleFilter.roles))

\* the filter of generateAdvancedSuggestions
IsAdvancedCandidate(heroId, ds, roleFilter) ==
  /\ ~\E i \in DOMAIN ds.yourTeam : ds.yourTeam[i] # NoHero /\ ds.yourTeam[i] = heroId
  /\ ~\E i \in DOMAIN ds.enemyTeam : ds.enemyTeam[i] # NoHero /\ ds.enemyTeam[i] = heroId
  /\ (~roleFilter.present \/ Len(roleFilter.roles) = 0 \/ matchesRoleFilter(Hero(heroId), roleFilter.roles))

\* the number of suggestions the advanced engine returns at most: slice(0, 10)
AdvancedTop == 10

\* this.heroes.filter(...) of generateAdvancedSuggestions: the candidates in roster order
availableHeroes(hs, ds, roleFilter) ==
  SelectSeq(hs, LAMBDA h : IsAdvancedCandidate(h, ds, roleFilter))

\* one element of availableHeroes.map(...): the suggestion built from a candidate's breakdown
scoredSuggestion(heroId, breakdown) ==
  [hero |-> heroId, score |-> calculateTotalScore(breakdown), breakdown |-> breakdown]

\* availableHeroes.map(...) of generateAdvancedSuggestions
scoreCandidates(candidates, ds, gameContext) ==
  [i \in DOMAIN candidates |->
     scoredSuggestion(candidates[i], calculateAdvancedScore(Hero(candidates[i]), ds, gameContext))]

\* AdvancedDraftAnalyzer.generateAdvancedSuggestions (the attached artifacts are left out,
\* except the lane assignment of the team with the candidate appended)
advancedSuggestions(hs, ds, gameContext, roleFilter) ==
  Slice(SortByScore(scoreCandidates(availableHeroes(hs, ds, roleFilter), ds, gameContext)),
        AdvancedTop)

\* DraftAnalyzerIntegration.getEnhancedRecommendations
getEnhancedRecommendations(hs, ds, gameContext, roleFilter) ==
  advancedSuggestions(hs, ds, gameContext, roleFilter)

\* the conversion of one AdvancedSuggestion by DraftAnalyzer.generateAdvancedSuggestions
ConvertSuggestion(stats, ds, suggestion) ==
  LET k == FindStat(stats, suggestion.hero)
      lanes == optimizeLanes(Append(Picked(ds.yourTeam), suggestion.hero))
      la == FindAssignment(lanes, suggestion.hero)
  IN [hero |-> suggestion.hero,
      score |-> suggestion.score,
      win_rate |-> IF k # 0 THEN calculateWinRate(stats[k].pub_win, stats[k].pub_pick) ELSE 5000,
      confidence |-> IF suggestion.score > 80 * T(20) THEN "high"
                     ELSE IF suggestion.score > 60 * T(20) THEN "medium" ELSE "low",
      advancedBreakdown |-> suggestion.breakdown,
      optimalLane |-> IF la # 0 THEN lanes[la].position ELSE 1]

\* advancedSuggestions.map(...) of DraftAnalyzer.generateAdvancedSuggestions
convertSuggestions(stats, ds, advanced) ==
  [i \in DOMAIN advanced |-> ConvertSuggestion(stats, ds, advanced[i])]

\* DraftAnalyzer.generateAdvancedSuggestions
generateAdvancedSuggestions(hs, stats, ds, gameContext, roleFilter, limit) ==
  Slice(convertSuggestions(stats, ds, getEnhancedRecommendations(hs, ds, gameContext, roleFilter)),
        limit)

\* AdvancedDraftAnalyzer.analyzeHero (the pro patterns and contextual factors are left out)
analyzeHero(hero, gameContext) ==
  [hero |-> hero.id,
   itemBuilds |-> generateItemBuilds(hero, gameContext),
   laneFlexibility |-> optimizeLanes(<<hero.id>>),
   timingWindows |-> analyzeTimingWindows(hero, gameContext),
   mlSynergyScore |-> predictTeamSynergy(<<hero.id>>)]

(***************************************************************************)
(* Exceptions. A sub-analyzer that throws while a candidate is scored is   *)
(* given as the set of candidates it throws for; the code has no try       *)
(* inside AdvancedDraftAnalyzer.generateAdvancedSuggestions.               *)
(***************************************************************************)
\* the outcome of a call that has thrown
Thrown == [threw |-> TRUE, value |-> <<>>]

\* the outcome of a call that has returned v
Returned(v) == [threw |-> FALSE, value |-> v]

\* availableHeroes.map(...) reaches a candidate whose scoring throws
someCandidateThrows(candidates, failing) ==
  \E i \in DOMAIN candidates : candidates[i] \in failing

\* AdvancedDraftAnalyzer.generateAdvancedSuggestions when a sub-analyzer throws for the
\* heroes of failing: the exception leaves availableHeroes.map and the method
advancedSuggestionsOrThrow(hs, ds, gameContext, roleFilter, failing) ==
  IF someCandidateThrows(availableHeroes(hs, ds, roleFilter), failing)
  THEN Thrown
  ELSE Returned(advancedSuggestions(hs, ds, gameContext, roleFilter))

\* catch (error) { return []; } of getEnhancedRecommendations
valueOrEmpty(outcome) ==
  IF outcome.threw THEN <<>> ELSE outcome.value

\* DraftAnalyzerIntegration.getEnhancedRecommendations with its try/catch: the catch returns []
tryGetEnhancedRecommendations(hs, ds, gameContext, roleFilter, failing) ==
  valueOrEmpty(advancedSuggestionsOrThrow(hs, ds, gameContext, roleFilter, failing))

\* the advancedBreakdown of the fallback: every factor 0.5
NeutralBreakdown ==
  [meta |-> T(10), counter |-> T(10), synergy |-> T(10), itemSynergy |-> T(10),
   laneOptimization |-> T(10), timing |-> T(10), proPattern |-> T(10), mlSynergy |-> T(10)]

\* basicSuggestions.map(...) of the catch block
withNeutralBreakdown(basic) ==
  [i \in DOMAIN basic |->
     [hero |-> basic[i].hero, score |-> basic[i].score, win_rate |-> basic[i].win_rate,
      confidence |-> basic[i].confidence, counter |-> basic[i].counter,
      advancedBreakdown |-> NeutralBreakdown, optimalLane |-> 1]]

\* the catch block of DraftAnalyzer.generateAdvancedSuggestions: the basic suggestions,
\* each extended with the neutral breakdown
fallbackSuggestions(hs, stats, store, ds, roleFilter, limit) ==
  withNeutralBreakdown(generateSuggestions(hs, stats, store, ds, roleFilter, limit))

\* the try body of DraftAnalyzer.generateAdvancedSuggestions after the advanced list has
\* come back, and its catch block
convertOrFallback(advanced, hs, stats, store, ds, roleFilter, limit, conversionThrows) ==
  IF conversionThrows /\ Len(advanced) > 0
  THEN fallbackSuggestions(hs, stats, store, ds, roleFilter, limit)
  ELSE Slice(convertSuggestions(stats, ds, advanced), limit)

\* DraftAnalyzer.generateAdvancedSuggestions with its try/catch. The integration layer has
\* caught what the analysis threw; the catch block is entered when the conversion of a
\* returned suggestion throws.
tryGenerateAdvancedSuggestions(hs, stats, store, ds, gameContext, roleFilter, limit, failing, conversionThrows) ==
  convertOrFallback(tryGetEnhancedRecommendations(hs, ds, gameContext, roleFilter, failing), hs, stats, store, ds, roleFilter, limit, conversionThrows)

(***************************************************************************)
(* EnhancedOpenDotaClient: the request queue, its processor, the rate      *)
(* limit and the circuit breaker.                                          *)
(*                                                                         *)
(* Time.  Durations are given in milliseconds as in the source; the clock  *)
(* of the model counts in units of WINDOW_MS / MAX_REQUESTS milliseconds   *)
(* (the delay between two requests), and Ticks rounds a duration down to   *)
(* that unit: a timer fires no earlier than its duration.                  *)
(***************************************************************************)
\* RATE_LIMIT.WINDOW_MS
WINDOW_MS == 60000

\* RATE_LIMIT.DELAY_BETWEEN_REQUESTS: Math.ceil(60000 / config.OPENDOTA_RATE_LIMIT)
DELAY_BETWEEN_REQUESTS == (WINDOW_MS + MAX_REQUESTS - 1) \div MAX_REQUESTS

\* circuitBreakerTimeout
circuitBreakerTimeout == 60000

\* maxRetries
maxRetries == 3

\* baseDelay
baseDelay == 1000

\* a duration in clock units
Ticks(ms) == (ms * MAX_REQUESTS) \div WINDOW_MS

\* the calls the client's public methods make: getHeroes() and getHeroMatchups(1)
ApiCalls ==
  { [url |-> "/heroes", options |-> [method |-> "", body |-> ""], priority |-> 10],
    [url |-> "/matchups/1", options |-> [method |-> "", body |-> ""], priority |-> 3] }

\* what a fetch ends with: a response with its status, a network error (0) or the abort
\* after OPENDOTA_TIMEOUT (408)
FetchOutcomes == {200, 404, 500, 0, 408}

\* the outcomes in which fetch has returned a response
IsResponse(statusCode) == statusCode \in {200, 404, 500}

\* getRequestKey
getRequestKey(url, options) ==
  <<IF options.method = "" THEN "GET" ELSE options.method, url, options.body>>

\* new Map(): no active request
NoActiveRequests == [k \in {} |-> 0]

NoRequest == [id |-> 0, url |-> "", options |-> [method |-> "", body |-> ""], retryCount |-> 0, priority |-> 0]

\* the queue processor is not running
ProcessorIdle == [pc |-> "none", request |-> NoRequest, wake |-> 0]

\* the state of the client after its constructor: startQueueProcessor has set isProcessing,
\* processQueue has returned on the empty queue, and the finally callback that clears
\* isProcessing has not run yet
NewClient ==
  [requestQueue |-> <<>>,
   isProcessing |-> TRUE,
   activeRequests |-> NoActiveRequests,
   rateLimitState |-> [requestCount |-> 0, windowStart |-> 0, queueSize |-> 0],
   circuitBreaker |-> [failures |-> 0, lastFailureTime |-> 0, state |-> "CLOSED"],
   processor |-> [pc |-> "returned", request |-> NoRequest, wake |-> 0]]

\* the clock (0 at construction), the promises handed to the callers, and the number of
\* fetches started in the current rate-limit window
NewEnv == [now |-> 0, promises |-> <<>>, windowAttempts |-> 0]

\* the promise request() returns to its caller
newPromise(apiCall, status, error, queued, follows) ==
  [key |-> getRequestKey(apiCall.url, apiCall.options), priority |-> apiCall.priority, status |-> status,
   error |-> error, attempts |-> 0, queued |-> queued, follows |-> follows]

\* setTimeout(resolve, ms) started at now: the earliest time the sleep ends
sleepReturnsAtOnce(now, ticks) == now

\* sleep
sleep(now, ticks) == now + ticks

\* requestQueue.findIndex((req) => req.priority < priority); 0 stands for -1
findInsertIndex(queue, priority) ==
  IF \E i \in DOMAIN queue : queue[i].priority < priority
  THEN CHOOSE i \in DOMAIN queue :
         queue[i].priority < priority /\ \A j \in 1..(i - 1) : queue[j].priority >= priority
  ELSE 0

\* push or splice(insertIndex, 0, queuedRequest)
insertAt(queue, insertIndex, queuedRequest) ==
  IF insertIndex = 0 THEN Append(queue, queuedRequest)
  ELSE SubSeq(queue, 1, insertIndex - 1) \o <<queuedRequest>> \o SubSeq(queue, insertIndex, Len(queue))

\* shouldRetryRequest with the retry count left out
shouldRetryRequestAnyError(request, statusCode) ==
  request.retryCount < maxRetries

\* shouldRetryRequest (every error executeRequest throws is an OpenDotaAPIError)
shouldRetryRequest(request, statusCode) ==
  IF request.retryCount >= maxRetries THEN FALSE
  ELSE statusCode >= 500 \/ statusCode = 408 \/ statusCode = 0

\* calculateRetryDelay; the jitter only lengthens the delay
calculateRetryDelay(retryCount) ==
  Min(baseDelay * 2^(retryCount - 1), 30000)

\* onRequestSuccess closing the breaker from any state
onRequestSuccessAlwaysClose(circuitBreaker) ==
  [circuitBreaker EXCEPT !.state = "CLOSED", !.failures = 0]

\* onRequestSuccess
onRequestSuccess(circuitBreaker) ==
  IF circuitBreaker.state = "HALF_OPEN"
  THEN [circuitBreaker EXCEPT !.state = "CLOSED", !.failures = 0]
  ELSE circuitBreaker

\* onRequestFailure
onRequestFailure(circuitBreaker, now) ==
  [failures |-> circuitBreaker.failures + 1,
   lastFailureTime |-> now,
   state |-> IF circuitBreaker.failures + 1 >= circuitBreakerThreshold THEN "OPEN"
             ELSE circuitBreaker.state]

\* the rate-limit window at the check of the processing loop
windowAt(rateLimitState, now) ==
  IF now - rateLimitState.windowStart >= Ticks(WINDOW_MS)
  THEN [rateLimitState EXCEPT !.requestCount = 0, !.windowStart = now]
  ELSE rateLimitState

\* the loop body up to its first await: the wait for the window, or requestQueue.shift()
\* and the fetch of executeRequest
takeNext(c, e) ==
  IF c.rateLimitState.requestCount >= MAX_REQUESTS
  THEN [client |-> [c EXCEPT !.processor =
                      [pc |-> "rateWait", request |-> NoRequest,
                       wake |-> sleep(e.now, Ticks(WINDOW_MS) - (e.now - c.rateLimitState.windowStart))]],
        env |-> e]
  ELSE [client |-> [c EXCEPT !.requestQueue = Tail(@),
                             !.rateLimitState.queueSize = Len(c.requestQueue) - 1,
                             !.processor = [pc |-> "fetching", request |-> Head(c.requestQueue), wake |-> 0]],
        env |-> [e EXCEPT !.promises[Head(c.requestQueue).id].attempts = @ + 1,
                          !.windowAttempts = @ + 1]]

\* processQueue from its while condition to its next await; when the queue is empty the
\* method returns and the finally callback of startQueueProcessor clears isProcessing
processQueue(c, e) ==
  IF c.requestQueue = <<>>
  THEN [client |-> [c EXCEPT !.isProcessing = FALSE, !.processor = ProcessorIdle], env |-> e]
  ELSE takeNext([c EXCEPT !.rateLimitState = windowAt(@, e.now)],
                [e EXCEPT !.windowAttempts =
                   IF e.now - c.rateLimitState.windowStart >= Ticks(WINDOW_MS) THEN 0 ELSE @])

\* startQueueProcessor
startQueueProcessor(c, e) ==
  IF c.isProcessing THEN [client |-> c, env |-> e]
  ELSE processQueue([c EXCEPT !.isProcessing = TRUE], e)

\* request() after the circuit-breaker check: the queue-size check, the duplicate check
\* (waitForExistingRequest), the insertion by priority and startQueueProcessor
admitRequest(c, e, apiCall) ==
  IF Len(c.requestQueue) >= maxQueueSize
  THEN [client |-> c,
        env |-> [e EXCEPT !.promises = Append(@, newPromise(apiCall, "rejected", 429, FALSE, 0))]]
  ELSE IF getRequestKey(apiCall.url, apiCall.options) \in DOMAIN c.activeRequests
  THEN [client |-> c,
        env |-> [e EXCEPT !.promises =
                   Append(@, newPromise(apiCall, "pending", -1, FALSE,
                                        c.activeRequests[getRequestKey(apiCall.url, apiCall.options)]))]]
  ELSE startQueueProcessor(
         [c EXCEPT !.requestQueue =
                     insertAt(@, findInsertIndex(@, apiCall.priority),
                              [id |-> Len(e.promises) + 1, url |-> apiCall.url, options |-> apiCall.options,
                               retryCount |-> 0, priority |-> apiCall.priority]),
                   !.rateLimitState.queueSize = Len(c.requestQueue) + 1],
         [e EXCEPT !.promises = Append(@, newPromise(apiCall, "pending", -1, TRUE, 0))])

\* request(): the circuit-breaker check, then the rest
request(c, e, apiCall) ==
  IF /\ c.circuitBreaker.state = "OPEN"
     /\ e.now - c.circuitBreaker.lastFailureTime < Ticks(circuitBreakerTimeout)
  THEN [client |-> c,
        env |-> [e EXCEPT !.promises = Append(@, newPromise(apiCall, "rejected", 503, FALSE, 0))]]
  ELSE admitRequest([c EXCEPT !.circuitBreaker.state = IF @ = "OPEN" THEN "HALF_OPEN" ELSE @], e, apiCall)

\* activeRequests.delete(requestKey)
deleteActive(activeRequests, requestKey) ==
  [k \in DOMAIN activeRequests \ {requestKey} |-> activeRequests[k]]

\* executeRequest once the fetch has ended: the request counter is incremented for a
\* response only, and the finally block drops the key
executeRequestEnds(c, statusCode) ==
  [c EXCEPT !.rateLimitState.requestCount = IF IsResponse(statusCode) THEN @ + 1 ELSE @,
            !.activeRequests = deleteActive(@, getRequestKey(c.processor.request.url,
                                                             c.processor.request.options))]

\* the try branch of the loop: request.resolve(result), onRequestSuccess, then the delay
requestResolved(c, e) ==
  [client |-> [c EXCEPT !.circuitBreaker = onRequestSuccess(@),
                        !.processor = [pc |-> "delay", request |-> NoRequest,
                                       wake |-> sleep(e.now, Ticks(DELAY_BETWEEN_REQUESTS))]],
   env |-> [e EXCEPT !.promises[c.processor.request.id].status = "resolved"]]

\* the catch branch of the loop: the retry (retryCount++, then the back-off sleep) or
\* request.reject(error), onRequestFailure and the delay
requestFailed(c, e, statusCode) ==
  IF shouldRetryRequest(c.processor.request, statusCode)
  THEN [client |-> [c EXCEPT !.processor =
                      [pc |-> "retrySleep",
                       request |-> [c.processor.request EXCEPT !.retryCount = @ + 1],
                       wake |-> sleep(e.now, Ticks(calculateRetryDelay(c.processor.request.retryCount + 1)))]],
        env |-> [e EXCEPT !.promises[c.processor.request.id].error = statusCode]]
  ELSE [client |-> [c EXCEPT !.circuitBreaker = onRequestFailure(@, e.now),
                             !.processor = [pc |-> "delay", request |-> NoRequest,
                                            wake |-> sleep(e.now, Ticks(DELAY_BETWEEN_REQUESTS))]],
        env |-> [e EXCEPT !.promises[c.processor.request.id].status = "rejected",
                          !.promises[c.processor.request.id].error = statusCode]]

\* the loop after the fetch of executeRequest has ended
fetchEnds(c, e, statusCode) ==
  IF statusCode = 200 THEN requestResolved(executeRequestEnds(c, statusCode), e)
  ELSE requestFailed(executeRequestEnds(c, statusCode), e, statusCode)

\* the retry after its back-off sleep: requestQueue.unshift(request), then the delay
requeue(c, e) ==
  [client |-> [c EXCEPT !.requestQueue = <<c.processor.request>> \o @,
                        !.processor = [pc |-> "delay", request |-> NoRequest,
                                       wake |-> sleep(e.now, Ticks(DELAY_BETWEEN_REQUESTS))]],
   env |-> e]

(***************************************************************************)
(* State: idle values of the parts a specification does not use.           *)
(***************************************************************************)
RosterIds == [i \in DOMAIN Roster |-> Roster[i].id]

\* new Map(): no hero has a matchup list
EmptyStore == [h \in {} |-> <<>>]

NoCall == [fn |-> "none", roleFilter |-> NoFilter, limit |-> 0, gameContext |-> NoContext,
           repeated |-> FALSE, out |-> <<>>]

NoProbe == [fn |-> "none", in |-> <<>>, out |-> <<>>, done |-> FALSE]

NoRoute == [pc |-> "idle", useAdvanced |-> FALSE, roleFilter |-> NoFilter,
            enemyHeroes |-> <<>>, results |-> <<>>, response |-> <<>>]

\* new DraftAnalyzer(heroes, heroStats)
AnalyzerInit ==
  /\ heroes = RosterIds
  /\ heroStats = StatsTable
  /\ matchupData = EmptyStore

(***************************************************************************)
(* The caller-owned draft (useDraft) and the handlers that fill it.        *)
(***************************************************************************)
\* useDraft.addHeroToTeam; suggestionsMutation.reset() drops the last suggestions
addHeroToTeam(hero, team, position) ==
  /\ draftState' =
       [draftState EXCEPT
          !.yourTeam = IF team = "your" THEN [@ EXCEPT ![position] = hero] ELSE @,
          !.enemyTeam = IF team = "enemy" THEN [@ EXCEPT ![position] = hero] ELSE @,
          !.currentPick = Min(draftState.currentPick + 1, 9),
          !.currentPhase = IF Min(draftState.currentPick + 1, 9) >= 10 THEN "completed" ELSE @]
  /\ call' = NoCall
  /\ mutationData' = <<>>
  /\ UNCHANGED <<heroes, heroStats, matchupData, probe, route>>

\* DraftBoard.handleHeroSelect / handleSuggestionSelect: the next free slot of the team
SelectHero(hero, team) ==
  LET slots == IF team = "your" THEN draftState.yourTeam ELSE draftState.enemyTeam IN
  /\ FilledSlots(draftState) < MaxPicks
  /\ draftState.currentPick < MaxAdds
  /\ FirstEmpty(slots) # 0
  /\ addHeroToTeam(hero, team, FirstEmpty(slots))
  /\ UNCHANGED <<timers, client, env>>

\* useDraft.removeHeroFromTeam
removeHeroFromTeam(team, position) ==
  /\ draftState' =
       [draftState EXCEPT
          !.yourTeam = IF team = "your" THEN [@ EXCEPT ![position] = NoHero] ELSE @,
          !.enemyTeam = IF team = "enemy" THEN [@ EXCEPT ![position] = NoHero] ELSE @,
          !.currentPhase = "pick"]
  /\ call' = NoCall
  /\ mutationData' = <<>>
  /\ UNCHANGED <<heroes, heroStats, matchupData, probe, route>>

\* useDraft.resetDraft
resetDraft ==
  /\ draftState' = EmptyDraft
  /\ call' = NoCall
  /\ UNCHANGED <<heroes, heroStats, matchupData, probe, route, mutationData, timers, client, env>>

(***************************************************************************)
(* The engine's operations.                                                *)
(***************************************************************************)
\* DraftAnalyzer.setMatchupData
setMatchupData(heroId, matchups) ==
  /\ matchupData' = [h \in DOMAIN matchupData \cup {heroId} |->
                       IF h = heroId THEN matchups ELSE matchupData[h]]
  /\ call' = NoCall
  /\ UNCHANGED <<draftState, heroes, heroStats, probe, route, mutationData, timers, client, env>>

\* the store after a suggestion call as a bug would have it: the matchup data is used up
storeConsumed(store) == EmptyStore

\* the store after a suggestion call: the engine only reads it
storeAfterCall(store) == store

\* The variable call keeps the last call made on the current draft and store. A call is
\* explored from the state without a recorded call, and once more, with the same arguments,
\* from the state that records it.
Fresh(fn, roleFilter, limit, gameContext) ==
  \/ call = NoCall
  \/ /\ call.fn = fn
     /\ call.roleFilter = roleFilter
     /\ call.limit = limit
     /\ call.gameContext = gameContext

\* a call of DraftAnalyzer.generateSuggestions
GenerateSuggestions(roleFilter, limit) ==
  /\ Fresh("generateSuggestions", roleFilter, limit, NoContext)
  /\ call' = [fn |-> "generateSuggestions", roleFilter |-> roleFilter, limit |-> limit,
              gameContext |-> NoContext, repeated |-> call # NoCall,
              out |-> generateSuggestions(heroes, heroStats, matchupData, draftState, roleFilter, limit)]
  /\ matchupData' = storeAfterCall(matchupData)
  /\ UNCHANGED <<draftState, heroes, heroStats, probe, route, mutationData, timers, client, env>>

\* a call of DraftAnalyzerIntegration.getEnhancedRecommendations, which returns the list of
\* AdvancedDraftAnalyzer.generateAdvancedSuggestions
GetEnhancedRecommendations(gameContext, roleFilter) ==
  /\ Fresh("getEnhancedRecommendations", roleFilter, AdvancedTop, gameContext)
  /\ call' = [fn |-> "getEnhancedRecommendations", roleFilter |-> roleFilter, limit |-> AdvancedTop,
              gameContext |-> gameContext, repeated |-> call # NoCall,
              out |-> getEnhancedRecommendations(heroes, draftState, gameContext, roleFilter)]
  /\ matchupData' = storeAfterCall(matchupData)
  /\ UNCHANGED <<draftState, heroes, heroStats, probe, route, mutationData, timers, client, env>>

\* a call of DraftAnalyzer.generateAdvancedSuggestions
GenerateAdvancedSuggestions(gameContext, roleFilter, limit) ==
  /\ Fresh("generateAdvancedSuggestions", roleFilter, limit, gameContext)
  /\ call' = [fn |-> "generateAdvancedSuggestions", roleFilter |-> roleFilter, limit |-> limit,
              gameContext |-> gameContext, repeated |-> call # NoCall,
              out |-> generateAdvancedSuggestions(heroes, heroStats, draftState, gameContext,
                                                  roleFilter, limit)]
  /\ matchupData' = storeAfterCall(matchupData)
  /\ UNCHANGED <<draftState, heroes, heroStats, probe, route, mutationData, timers, client, env>>

(***************************************************************************)
(* Inputs of the engine specification.                                     *)
(***************************************************************************)
Teams == {"your", "enemy"}

RoleFilters == {NoFilter, Filter(<<>>), Filter(<<"Support">>), Filter(<<"Carry", "Nuker">>)}

\* the limits callers pass: a short list, and the 15 of the suggestions route
Limits == {3, 15}

Contexts == {NoContext,
             [expectedDuration |-> 25, playstyle |-> "aggressive", itemStrategy |-> "early"]}

\* the heroes the caller stores matchup lists for, and the lists
StoreKeys == {5}

StoreLists == { <<[hero_id |-> 1, games_played |-> 20, wins |-> 15]>>,
                <<[hero_id |-> 1, games_played |-> 10, wins |-> 9],
                  [hero_id |-> 2, games_played |-> 40, wins |-> 10]>> }

Init ==
  /\ draftState = EmptyDraft
  /\ AnalyzerInit
  /\ call = NoCall
  /\ probe = NoProbe
  /\ route = NoRoute
  /\ mutationData = <<>>
  /\ timers = <<>>
  /\ client = NewClient
  /\ env = NewEnv

Next ==
  \/ \E hero \in 1..PickPool, team \in Teams : SelectHero(hero, team)
  \/ \E team \in Teams, position \in 1..TeamSize : removeHeroFromTeam(team, position) /\ UNCHANGED <<timers, client, env>>
  \/ resetDraft
  \/ \E heroId \in StoreKeys, matchups \in StoreLists : setMatchupData(heroId, matchups)
  \/ \E roleFilter \in RoleFilters, limit \in Limits : GenerateSuggestions(roleFilter, limit)
  \/ \E gameContext \in Contexts, roleFilter \in RoleFilters :
       GetEnhancedRecommendations(gameContext, roleFilter)
  \/ \E gameContext \in Contexts, roleFilter \in RoleFilters, limit \in Limits :
       GenerateAdvancedSuggestions(gameContext, roleFilter, limit)

Spec == Init /\ [][Next]_vars

(***************************************************************************)
(* Pure functions on their own: the input is drawn by the initial state,   *)
(* the action applies the function.                                        *)
(***************************************************************************)
RECURSIVE SeqsUpTo(_, _)
\* the sequences over S of length at most n
SeqsUpTo(S, n) ==
  IF n = 0 THEN {<<>>}
  ELSE LET shorter == SeqsUpTo(S, n - 1)
       IN shorter \cup {Append(q, x) : q \in {r \in shorter : Len(r) = n - 1}, x \in S}

\* the sequences without repetition
Distinct(q) == \A i, j \in DOMAIN q : i # j => q[i] # q[j]

ProbeIdle ==
  /\ draftState = EmptyDraft
  /\ AnalyzerInit
  /\ call = NoCall
  /\ route = NoRoute
  /\ mutationData = <<>>
  /\ timers = <<>>
  /\ client = NewClient
  /\ env = NewEnv

ProbeFrame == UNCHANGED <<draftState, heroes, heroStats, matchupData, call, route, mutationData, timers, client, env>>

\* ---- the counter score ----
CounterEnemyIds == {1, 3}

CounterHeroIds == {5, 8}

CounterSamples == {<<9, 9>>, <<10, 4>>, <<11, 11>>, <<20, 5>>}

CounterRecords ==
  {[hero_id |-> e, games_played |-> gw[1], wins |-> gw[2]] : e \in CounterEnemyIds, gw \in CounterSamples}

CounterStores(heroId) ==
  {EmptyStore} \cup {[h \in {heroId} |-> list] : list \in SeqsUpTo(CounterRecords, MaxEnemies)}

CounterInputs ==
  {[store |-> st, heroId |-> h, enemyHeroes |-> es] :
     h \in CounterHeroIds, st \in UNION {CounterStores(x) : x \in CounterHeroIds},
     es \in SeqsUpTo(CounterEnemyIds, MaxEnemies)}

InitCounter ==
  /\ ProbeIdle
  /\ \E fn \in {"getCounterScore", "calculateCounterScore"}, in \in CounterInputs :
       probe = [fn |-> fn, in |-> in, out |-> 0, done |-> FALSE]

ApplyGetCounterScore ==
  /\ probe.fn = "getCounterScore" /\ ~probe.done
  /\ probe' = [probe EXCEPT !.done = TRUE,
                 !.out = getCounterScore(probe.in.store, probe.in.heroId, probe.in.enemyHeroes)]
  /\ ProbeFrame

ApplyCalculateCounterScore ==
  /\ probe.fn = "calculateCounterScore" /\ ~probe.done
  /\ probe' = [probe EXCEPT !.done = TRUE,
                 !.out = calculateCounterScore(Hero(probe.in.heroId), probe.in.enemyHeroes)]
  /\ ProbeFrame

NextCounter == ApplyGetCounterScore \/ ApplyCalculateCounterScore

SpecCounter == InitCounter /\ [][NextCounter]_vars

\* ---- the lane optimizer ----
LanePool == {1, 4, 5, 11, 13}

LaneTeams == {q \in SeqsUpTo(LanePool, MaxLaneTeam) : Distinct(q)}

InitLane ==
  /\ ProbeIdle
  /\ \E team \in LaneTeams : probe = [fn |-> "optimizeLanes", in |-> team, out |-> <<>>, done |-> FALSE]

ApplyOptimizeLanes ==
  /\ probe.fn = "optimizeLanes" /\ ~probe.done
  /\ probe' = [probe EXCEPT !.done = TRUE, !.out = optimizeLanes(probe.in)]
  /\ ProbeFrame

NextLane == ApplyOptimizeLanes

SpecLane == InitLane /\ [][NextLane]_vars

\* ---- the weighted total ----
FactorValues == {0, T(10), T(20)}

Breakdowns == [{BreakdownKeys[i] : i \in DOMAIN BreakdownKeys} -> FactorValues]

InitScore ==
  /\ ProbeIdle
  /\ \E breakdown \in Breakdowns :
       probe = [fn |-> "calculateTotalScore", in |-> breakdown, out |-> 0, done |-> FALSE]

ApplyCalculateTotalScore ==
  /\ probe.fn = "calculateTotalScore" /\ ~probe.done
  /\ probe' = [probe EXCEPT !.done = TRUE, !.out = calculateTotalScore(probe.in)]
  /\ ProbeFrame

NextScore == ApplyCalculateTotalScore

SpecScore == InitScore /\ [][NextScore]_vars

\* ---- the advanced path when a sub-analyzer throws ----
\* drafts with at most one pick per team
FaultDrafts ==
  {[EmptyDraft EXCEPT !.yourTeam[1] = y, !.enemyTeam[1] = e,
                      !.currentPick = (IF y = NoHero THEN 0 ELSE 1) + (IF e = NoHero THEN 0 ELSE 1)] :
     y \in {NoHero, 1}, e \in {NoHero, 2}}

\* the candidates a sub-analyzer throws for
FailingSets == {{}, {4}, {5}}

FaultInputs ==
  {[ds |-> ds, gameContext |-> NoContext, roleFilter |-> rf, limit |-> l,
    failing |-> f, conversionThrows |-> c] :
     ds \in FaultDrafts, rf \in RoleFilters, l \in Limits, f \in FailingSets, c \in BOOLEAN}

InitFault ==
  /\ ProbeIdle
  /\ \E fn \in {"getEnhancedRecommendations", "generateAdvancedSuggestions"}, in \in FaultInputs :
       probe = [fn |-> fn, in |-> in, out |-> <<>>, done |-> FALSE]

ApplyTryGetEnhancedRecommendations ==
  /\ probe.fn = "getEnhancedRecommendations" /\ ~probe.done
  /\ probe' = [probe EXCEPT !.done = TRUE,
                 !.out = tryGetEnhancedRecommendations(heroes, probe.in.ds, probe.in.gameContext,
                                                       probe.in.roleFilter, probe.in.failing)]
  /\ ProbeFrame

ApplyTryGenerateAdvancedSuggestions ==
  /\ probe.fn = "generateAdvancedSuggestions" /\ ~probe.done
  /\ probe' = [probe EXCEPT !.done = TRUE,
                 !.out = tryGenerateAdvancedSuggestions(heroes, heroStats, matchupData, probe.in.ds,
                                                        probe.in.gameContext, probe.in.roleFilter,
                                                        probe.in.limit, probe.in.failing,
                                                        probe.in.conversionThrows)]
  /\ ProbeFrame

NextFault == ApplyTryGetEnhancedRecommendations \/ ApplyTryGenerateAdvancedSuggestions

SpecFault == InitFault /\ [][NextFault]_vars

\* ---- the analysis of one hero under a game context ----
Durations == {0, 25, 40, 60, 75}

Playstyles == {"none", "aggressive", "defensive", "balanced"}

ItemStrategies == {"none", "early", "scaling", "utility"}

GameContexts ==
  {[expectedDuration |-> d, playstyle |-> p, itemStrategy |-> s] :
     d \in Durations, p \in Playstyles, s \in ItemStrategies}

InitHero ==
  /\ ProbeIdle
  /\ \E h \in HeroIds, gameContext \in GameContexts :
       probe = [fn |-> "analyzeHero", in |-> [hero |-> h, gameContext |-> gameContext],
                out |-> <<>>, done |-> FALSE]

ApplyAnalyzeHero ==
  /\ probe.fn = "analyzeHero" /\ ~probe.done
  /\ probe' = [probe EXCEPT !.done = TRUE,
                 !.out = analyzeHero(Hero(probe.in.hero), probe.in.gameContext)]
  /\ ProbeFrame

NextHero == ApplyAnalyzeHero

SpecHero == InitHero /\ [][NextHero]_vars

\* ---- the synergy predictor ----
SynergyPool == {1, 2, 3, 4, 5, 11}

SynergyTeams == {q \in SeqsUpTo(SynergyPool, MaxSynergyTeam) : Distinct(q)}

InitSynergy ==
  /\ ProbeIdle
  /\ \/ \E a \in SynergyPool, b \in SynergyPool :
          probe = [fn |-> "predictHeroSynergy", in |-> [hero1 |-> a, hero2 |-> b],
                   out |-> 0, done |-> FALSE]
     \/ \E team \in SynergyTeams :
          probe = [fn |-> "predictTeamSynergy", in |-> [heroes |-> team], out |-> 0, done |-> FALSE]
     \/ \E h \in SynergyPool, team \in SynergyTeams :
          /\ ~Includes(team, h)
          /\ Len(team) < MaxSynergyTeam
          /\ probe = [fn |-> "calculateSynergyScore", in |-> [hero |-> h, yourTeam |-> team],
                      out |-> 0, done |-> FALSE]

ApplyPredictHeroSynergy ==
  /\ probe.fn = "predictHeroSynergy" /\ ~probe.done
  /\ probe' = [probe EXCEPT !.done = TRUE,
                 !.out = predictHeroSynergy(Hero(probe.in.hero1), Hero(probe.in.hero2))]
  /\ ProbeFrame

ApplyPredictTeamSynergy ==
  /\ probe.fn = "predictTeamSynergy" /\ ~probe.done
  /\ probe' = [probe EXCEPT !.done = TRUE, !.out = predictTeamSynergy(probe.in.heroes)]
  /\ ProbeFrame

ApplyCalculateSynergyScore ==
  /\ probe.fn = "calculateSynergyScore" /\ ~probe.done
  /\ probe' = [probe EXCEPT !.done = TRUE,
                 !.out = calculateSynergyScore(Hero(probe.in.hero), probe.in.yourTeam)]
  /\ ProbeFrame

NextSynergy == ApplyPredictHeroSynergy \/ ApplyPredictTeamSynergy \/ ApplyCalculateSynergyScore

SpecSynergy == InitSynergy /\ [][NextSynergy]_vars

\* ---- the breakdown of one candidate under a game context ----
BreakdownDrafts ==
  {[EmptyDraft EXCEPT !.yourTeam[1] = y, !.currentPick = IF y = NoHero THEN 0 ELSE 1] :
     y \in {NoHero, 1, 5}}

InitBreakdown ==
  /\ ProbeIdle
  /\ \E h \in HeroIds, ds \in BreakdownDrafts, gameContext \in GameContexts :
       /\ h \notin pickedHeroes(ds)
       /\ probe = [fn |-> "calculateAdvancedScore",
                   in |-> [hero |-> h, ds |-> ds, gameContext |-> gameContext],
                   out |-> <<>>, done |-> FALSE]

ApplyCalculateAdvancedScore ==
  /\ probe.fn = "calculateAdvancedScore" /\ ~probe.done
  /\ probe' = [probe EXCEPT !.done = TRUE,
                 !.out = calculateAdvancedScore(Hero(probe.in.hero), probe.in.ds, probe.in.gameContext)]
  /\ ProbeFrame

NextBreakdown == ApplyCalculateAdvancedScore

SpecBreakdown == InitBreakdown /\ [][NextBreakdown]_vars

(***************************************************************************)
(* The suggestions route: POST /api/suggestions.                           *)
(***************************************************************************)
\* what OpenDotaAPI.getHeroMatchups may answer (OpenDotaMatchupData: hero_id, games, wins)
MatchupResponses ==
  { <<[hero_id |-> 5, games |-> 100, wins |-> 30], [hero_id |-> 8, games |-> 50, wins |-> 40]>>,
    <<[hero_id |-> 5, games |-> 9, wins |-> 1]>> }

\* DataTransformer.transformMatchupData
transformMatchupData(openDotaData) ==
  [i \in DOMAIN openDotaData |->
     [hero_id |-> openDotaData[i].hero_id,
      games_played |-> openDotaData[i].games,
      wins |-> openDotaData[i].wins]]

\* the request arrives with the caller's draft; new DraftAnalyzer(heroes, heroStats);
\* one matchup fetch is started per enemy hero
RouteStart(useAdvanced, roleFilter) ==
  /\ route.pc = "idle"
  /\ route' = [pc |-> "fetching", useAdvanced |-> useAdvanced, roleFilter |-> roleFilter,
               enemyHeroes |-> Picked(draftState.enemyTeam),
               results |-> [i \in DOMAIN Picked(draftState.enemyTeam) |-> [state |-> "pending", failed |-> FALSE, matchups |-> <<>>]],
               response |-> <<>>]
  /\ matchupData' = EmptyStore
  /\ call' = NoCall
  /\ UNCHANGED <<draftState, heroes, heroStats, probe, mutationData, timers, client, env>>

\* the fetch for the i-th enemy hero answers
RouteFetchOk(i, matchups) ==
  /\ route.pc = "fetching"
  /\ i \in DOMAIN route.results
  /\ route.results[i].state = "pending"
  /\ route' = [route EXCEPT !.results[i] = [state |-> "done", failed |-> FALSE, matchups |-> matchups]]
  /\ UNCHANGED <<draftState, heroes, heroStats, matchupData, call, probe, mutationData, timers, client, env>>

\* the fetch for the i-th enemy hero fails: the catch returns an empty list
RouteFetchFail(i) ==
  /\ route.pc = "fetching"
  /\ i \in DOMAIN route.results
  /\ route.results[i].state = "pending"
  /\ route' = [route EXCEPT !.results[i] = [state |-> "done", failed |-> TRUE, matchups |-> <<>>]]
  /\ UNCHANGED <<draftState, heroes, heroStats, matchupData, call, probe, mutationData, timers, client, env>>

\* matchupResults.forEach: setMatchupData(heroId, transformed) for the results up to index n
RECURSIVE StoreResults(_, _, _, _)
StoreResults(store, enemyHeroes, results, n) ==
  IF n = 0 THEN store
  ELSE LET before == StoreResults(store, enemyHeroes, results, n - 1)
       IN [h \in DOMAIN before \cup {enemyHeroes[n]} |->
             IF h = enemyHeroes[n] THEN transformMatchupData(results[n].matchups) ELSE before[h]]

\* the forEach entered without awaiting Promise.all: the lists fetched so far are stored
RouteStoreNoWait ==
  /\ route.pc = "fetching"
  /\ matchupData' = StoreResults(matchupData, route.enemyHeroes, route.results, Len(route.results))
  /\ route' = [route EXCEPT !.pc = "stored"]
  /\ UNCHANGED <<draftState, heroes, heroStats, call, probe, mutationData, timers, client, env>>

\* Promise.all has resolved: the matchup lists are stored in the analyzer
RouteStore ==
  /\ route.pc = "fetching"
  /\ \A i \in DOMAIN route.results : route.results[i].state = "done"
  /\ matchupData' = StoreResults(matchupData, route.enemyHeroes, route.results, Len(route.results))
  /\ route' = [route EXCEPT !.pc = "stored"]
  /\ UNCHANGED <<draftState, heroes, heroStats, call, probe, mutationData, timers, client, env>>

\* the limit the route asks for
RouteLimit == 15

\* the suggestions are generated
RouteGenerate ==
  /\ route.pc = "stored"
  /\ route' = [route EXCEPT !.pc = "respond",
                 !.response = IF route.useAdvanced
                              THEN generateAdvancedSuggestions(heroes, heroStats, draftState, NoContext,
                                                               route.roleFilter, RouteLimit)
                              ELSE generateSuggestions(heroes, heroStats, matchupData, draftState,
                                                       route.roleFilter, RouteLimit)]
  /\ UNCHANGED <<draftState, heroes, heroStats, matchupData, call, probe, mutationData, timers, client, env>>

\* NextResponse.json(suggestions): the request is over and its analyzer is dropped
RouteReturn ==
  /\ route.pc = "respond"
  /\ route' = NoRoute
  /\ matchupData' = EmptyStore
  /\ UNCHANGED <<draftState, heroes, heroStats, call, probe, mutationData, timers, client, env>>

InitRoute == Init

\* the draft is edited between requests; a request carries the draft of the moment it is sent
NextRoute ==
  \/ route.pc = "idle" /\ \E hero \in 1..PickPool, team \in Teams : SelectHero(hero, team)
  \/ route.pc = "idle" /\ \E team \in Teams, position \in 1..TeamSize : removeHeroFromTeam(team, position) /\ UNCHANGED <<timers, client, env>>
  \/ route.pc = "idle" /\ resetDraft
  \/ \E useAdvanced \in BOOLEAN, roleFilter \in {NoFilter, Filter(<<"Support">>)} :
       RouteStart(useAdvanced, roleFilter)
  \/ \E i \in 1..TeamSize, matchups \in MatchupResponses : RouteFetchOk(i, matchups)
  \/ \E i \in 1..TeamSize : RouteFetchFail(i)
  \/ RouteStore
  \/ RouteGenerate
  \/ RouteReturn

SpecRoute == InitRoute /\ [][NextRoute]_vars

(***************************************************************************)
(* The draft board (DraftBoard over useDraft): grid selections, selections *)
(* of a shown suggestion, removals, resets, and the suggestion refreshes   *)
(* the handlers schedule with setTimeout.                                  *)
(***************************************************************************)
\* useDraft.isHeroPicked
isHeroPicked(heroId) == heroId \in pickedHeroes(draftState)

\* fetchSuggestions: the list POST /api/suggestions answers for the draft it is sent, with
\* the hook's initial settings: no role filter, no game context, advanced analysis on
fetchSuggestions(ds) ==
  generateAdvancedSuggestions(heroes, heroStats, ds, NoContext, Filter(<<>>), RouteLimit)

\* suggestionsMutation.data after the answer: the hero ids in the order returned
SuggestedIds(list) == [i \in DOMAIN list |-> list[i].hero]

\* setTimeout(() => getSuggestions(), 100): getSuggestions belongs to the render in which
\* the handler ran, so the request it sends carries the draft of that render (kept here
\* as its two teams, the part of a draft the engine reads)
scheduleRefresh ==
  Append(timers, [yourTeam |-> draftState.yourTeam, enemyTeam |-> draftState.enemyTeam])

\* DraftBoard.handleHeroSelect: a card of the grid is clicked (HeroCard ignores the click on
\* a picked hero); the hero goes to the next free slot of the team of the picking mode
HandleHeroSelect(hero, team) ==
  LET slots == IF team = "your" THEN draftState.yourTeam ELSE draftState.enemyTeam IN
  /\ ~isHeroPicked(hero)
  /\ FilledSlots(draftState) < MaxPicks
  /\ draftState.currentPick < MaxBoardAdds
  /\ FirstEmpty(slots) # 0
  /\ team = "enemy" => Len(timers) < MaxTimers
  /\ addHeroToTeam(hero, team, FirstEmpty(slots))
  /\ timers' = IF team = "enemy" THEN scheduleRefresh ELSE timers
  /\ UNCHANGED <<client, env>>

\* the suggestions the side panel shows as quick picks: suggestions.slice(0, 3)
QuickPicks == 3

\* DraftBoard.handleSuggestionSelect: one of the quick picks is clicked
HandleSuggestionSelect(heroId) ==
  /\ Includes(Slice(mutationData, QuickPicks), heroId)
  /\ \E i \in DOMAIN heroes : heroes[i] = heroId
  /\ FilledSlots(draftState) < MaxPicks
  /\ draftState.currentPick < MaxBoardAdds
  /\ FirstEmpty(draftState.yourTeam) # 0
  /\ addHeroToTeam(heroId, "your", FirstEmpty(draftState.yourTeam))
  /\ UNCHANGED <<timers, client, env>>

\* DraftBoard.handleRemoveHero on a filled slot
HandleRemoveHero(team, position) ==
  LET slots == IF team = "your" THEN draftState.yourTeam ELSE draftState.enemyTeam IN
  /\ slots[position] # NoHero
  /\ team = "enemy" => Len(timers) < MaxTimers
  /\ removeHeroFromTeam(team, position)
  /\ timers' = IF team = "enemy" THEN scheduleRefresh ELSE timers
  /\ UNCHANGED <<client, env>>

\* useDraft.getSuggestions from the current render (Refresh, Analyze), and its answer
GetSuggestions ==
  /\ mutationData' = SuggestedIds(fetchSuggestions(draftState))
  /\ UNCHANGED <<draftState, heroes, heroStats, matchupData, call, probe, route, timers, client, env>>

\* the oldest scheduled refresh runs, and its answer arrives
TimerFires ==
  /\ timers # <<>>
  /\ mutationData' = SuggestedIds(fetchSuggestions(Head(timers)))
  /\ timers' = Tail(timers)
  /\ UNCHANGED <<client, env>>
  /\ UNCHANGED <<draftState, heroes, heroStats, matchupData, call, probe, route>>

InitBoard == Init

NextBoard ==
  \/ \E hero \in 1..PickPool, team \in Teams : HandleHeroSelect(hero, team)
  \/ \E heroId \in HeroIds : HandleSuggestionSelect(heroId)
  \/ \E team \in Teams, position \in 1..TeamSize : HandleRemoveHero(team, position)
  \/ resetDraft
  \/ GetSuggestions
  \/ TimerFires

SpecBoard == InitBoard /\ [][NextBoard]_vars

(***************************************************************************)
(* A whole draft: the ten slots are filled from the grid, one card at a    *)
(* time, the free card that comes first in the roster.                     *)
(***************************************************************************)
\* the first card of the grid that is not picked, NoHero when every card is
NextCard ==
  IF \A i \in DOMAIN heroes : isHeroPicked(heroes[i]) THEN NoHero
  ELSE heroes[CHOOSE i \in DOMAIN heroes :
                /\ ~isHeroPicked(heroes[i])
                /\ \A k \in 1..(i - 1) : isHeroPicked(heroes[k])]

\* DraftBoard.handleHeroSelect on that card, in the picking mode of the team
PickNextCard(team) ==
  LET slots == IF team = "your" THEN draftState.yourTeam ELSE draftState.enemyTeam IN
  /\ NextCard # NoHero
  /\ FirstEmpty(slots) # 0
  /\ addHeroToTeam(NextCard, team, FirstEmpty(slots))
  /\ UNCHANGED <<timers, client, env>>

\* DraftBoard.handleRemoveHero on the last filled slot of a team: the latest pick of the
\* team is taken back (the refresh it schedules is left out)
RemoveLastPick(team) ==
  LET slots == IF team = "your" THEN draftState.yourTeam ELSE draftState.enemyTeam IN
  /\ Len(Picked(slots)) > 0
  /\ removeHeroFromTeam(team, Len(Picked(slots)))
  /\ UNCHANGED <<timers, client, env>>

InitPhase == Init

NextPhase ==
  \/ \E team \in Teams : PickNextCard(team)
  \/ \E team \in Teams : RemoveLastPick(team)
  \/ resetDraft

SpecPhase == InitPhase /\ [][NextPhase]_vars

(***************************************************************************)
(* The client at work: the callers' request() calls, the steps of the      *)
(* queue processor between two awaits, the fetch outcomes and the clock.   *)
(***************************************************************************)
\* the step leaves the client and its surroundings as the given pair
ClientBecomes(next) ==
  /\ client' = next.client
  /\ env' = next.env
  /\ UNCHANGED <<draftState, heroes, heroStats, matchupData, call, probe, route, mutationData, timers>>

\* a caller calls request() through one of the public methods
CallRequest(apiCall) ==
  /\ Len(env.promises) < MaxCalls
  /\ ClientBecomes(request(client, env, apiCall))

\* the finally callback of the constructor's startQueueProcessor: isProcessing = false
ProcessorSettles ==
  /\ client.processor.pc = "returned"
  /\ ClientBecomes([client |-> [client EXCEPT !.isProcessing = FALSE, !.processor = ProcessorIdle],
                    env |-> env])

\* the fetch of the request in hand ends
FetchEnds(statusCode) ==
  /\ client.processor.pc = "fetching"
  /\ ClientBecomes(fetchEnds(client, env, statusCode))

\* the back-off sleep of a retry ends
RetrySleepEnds ==
  /\ client.processor.pc = "retrySleep"
  /\ env.now >= client.processor.wake
  /\ ClientBecomes(requeue(client, env))

\* the delay between two requests, or the wait for the rate-limit window, ends: the loop
\* goes on with its while condition
SleepEnds ==
  /\ client.processor.pc \in {"delay", "rateWait"}
  /\ env.now >= client.processor.wake
  /\ ClientBecomes(processQueue(client, env))

\* time passes
ClockTick ==
  /\ env.now < MaxClock
  /\ ClientBecomes([client |-> client, env |-> [env EXCEPT !.now = @ + 1]])

InitClient == Init

NextClient ==
  \/ \E apiCall \in ApiCalls : CallRequest(apiCall)
  \/ ProcessorSettles
  \/ \E statusCode \in FetchOutcomes : FetchEnds(statusCode)
  \/ RetrySleepEnds
  \/ SleepEnds
  \/ ClockTick

SpecClient == InitClient /\ [][NextClient]_vars

(***************************************************************************)
(* Properties.                                                             *)
(***************************************************************************)
\* the heroes of a returned list
OutHeroes(out) == {out[i].hero : i \in DOMAIN out}

\* the ids of the heroes in the slots of either team
DraftedIds(ds) ==
  {Hero(ds.yourTeam[i]).id : i \in {k \in DOMAIN ds.yourTeam : ds.yourTeam[k] # NoHero}}
    \cup {Hero(ds.enemyTeam[i]).id : i \in {k \in DOMAIN ds.enemyTeam : ds.enemyTeam[k] # NoHero}}

\* C1 (candidate exclusion): no suggestion returned by the basic engine, by the advanced engine
\* or by the converted advanced call has the id of a hero that occupies a slot of yourTeam or
\* enemyTeam.
C1_CandidateExclusion ==
  call.fn # "none" =>
    \A i \in DOMAIN call.out : Hero(call.out[i].hero).id \notin DraftedIds(draftState)

\* C1 witness: the advanced engine has returned suggestions for a draft with a hero on each team.
C1_Witness ==
  /\ call.fn = "getEnhancedRecommendations"
  /\ Picked(draftState.yourTeam) # <<>>
  /\ Picked(draftState.enemyTeam) # <<>>
  /\ call.out # <<>>

\* the score the called engine gives to a hero in the current draft
EngineScore(heroId) ==
  IF call.fn = "generateSuggestions"
  THEN calculateHeroScore(heroes, heroStats, matchupData, heroId, draftState).score
  ELSE calculateTotalScore(calculateAdvancedScore(Hero(heroId), draftState, call.gameContext))

\* C2 (role filter): with a non-empty roleFilter every returned hero has at least one role tag
\* of the filter; with an empty or absent roleFilter no undrafted hero is left out for its roles:
\* a hero that is not returned is drafted or ranks no higher than the last returned one.
C2_RoleFilter ==
  call.fn # "none" =>
    IF call.roleFilter.present /\ call.roleFilter.roles # <<>>
    THEN \A i \in DOMAIN call.out :
           \E r \in DOMAIN Hero(call.out[i].hero).roles :
             Includes(call.roleFilter.roles, Hero(call.out[i].hero).roles[r])
    ELSE \A h \in HeroIds :
           \/ h \in DraftedIds(draftState)
           \/ h \in OutHeroes(call.out)
           \/ call.out # <<>> /\ EngineScore(h) <= call.out[Len(call.out)].score

\* C2 witness: the basic engine has returned suggestions under roleFilter = [Support] while an
\* undrafted hero without the Support tag exists.
C2_Witness ==
  /\ call.fn = "generateSuggestions"
  /\ call.roleFilter = Filter(<<"Support">>)
  /\ call.out # <<>>
  /\ \E h \in HeroIds : h \notin DraftedIds(draftState) /\ ~HasRole(Hero(h), "Support")

\* C3 (ranking order): every returned list is in non-increasing order of score, for the basic
\* engine, for the advanced engine and for the converted list.
C3_RankingOrder ==
  call.fn # "none" =>
    \A i \in 1..(Len(call.out) - 1) : call.out[i].score >= call.out[i + 1].score

\* C3 witness: the converted advanced call has returned at least two suggestions whose scores differ.
C3_Witness ==
  /\ call.fn = "generateAdvancedSuggestions"
  /\ Len(call.out) >= 2
  /\ call.out[1].score > call.out[Len(call.out)].score

\* the number of undrafted heroes that match the role filter
CandidateCount(ds, roleFilter) ==
  Cardinality({h \in HeroIds :
                 /\ h \notin DraftedIds(ds)
                 /\ \/ ~roleFilter.present
                    \/ roleFilter.roles = <<>>
                    \/ \E r \in DOMAIN Hero(h).roles : Includes(roleFilter.roles, Hero(h).roles[r])})

\* C4 (truncation to limit): a suggestion call with a limit returns exactly
\* min(limit, number of undrafted role-matching heroes) suggestions; in particular the
\* converted advanced call with limit 15 on at least 15 or 11 candidates returns that many.
C4_TruncationToLimit ==
  call.fn \in {"generateSuggestions", "generateAdvancedSuggestions"} =>
    Len(call.out) = Min(call.limit, CandidateCount(draftState, call.roleFilter))

\* the total of a breakdown as the weights of the documentation give it, in 1/600000
DocumentedTotal(b) ==
  20 * b.counter + 20 * b.synergy + 15 * b.meta + 15 * b.itemSynergy
    + 10 * b.laneOptimization + 10 * b.timing + 5 * b.proPattern + 5 * b.mlSynergy

\* C5 (weighted-sum invariant): the eight weights of calculateTotalScore are counter 20,
\* synergy 20, meta 15, item-synergy 15, lane-optimization 10, timing 10, pro-pattern 5 and
\* ml-synergy 5 percent, they sum to 100, and the total of every breakdown is the sum of
\* weight times value over the eight factors.
C5_WeightedSum ==
  /\ SumSeq([i \in DOMAIN BreakdownKeys |-> weights[BreakdownKeys[i]]]) = 100
  /\ probe.fn = "calculateTotalScore" /\ probe.done => probe.out = DocumentedTotal(probe.in)

\* C5 witness: calculateTotalScore has been applied to a breakdown whose synergy and
\* pro-pattern values differ and whose total is positive.
C5_Witness ==
  /\ probe.fn = "calculateTotalScore" /\ probe.done
  /\ probe.in.synergy # probe.in.proPattern
  /\ probe.in.meta # probe.in.counter
  /\ probe.out > 0

\* the indices of the heroes of a team that carry the role
WithRole(team, role) == {i \in DOMAIN team : HasRole(Hero(team[i]), role)}

\* the canonical position of each of the four canonical roles
CanonicalPosition == [Carry |-> 1, Nuker |-> 2, Initiator |-> 3, Support |-> 5]

CanonicalRoles == {"Carry", "Nuker", "Initiator", "Support"}

\* C6 (lane optimizer distinctness): when a team of at most 5 heroes has exactly one Carry, one
\* Nuker, one Initiator and one Support, all four different heroes, optimizeLanes gives these
\* four heroes pairwise distinct positions: the Carry 1, the Nuker 2, the Initiator 3 and the
\* Support 5.
C6_LaneDistinct ==
  (/\ probe.fn = "optimizeLanes" /\ probe.done
   /\ Len(probe.in) <= 5
   /\ \A role \in CanonicalRoles : Cardinality(WithRole(probe.in, role)) = 1
   /\ \A r1, r2 \in CanonicalRoles : r1 # r2 => WithRole(probe.in, r1) # WithRole(probe.in, r2))
  => \A role \in CanonicalRoles :
       \A i \in WithRole(probe.in, role) : probe.out[i].position = CanonicalPosition[role]

\* the neutral counter score on the scale of the function under test
NeutralCounter(fn) == IF fn = "getCounterScore" THEN 5000 ELSE T(10)

\* the hero has no usable matchup data against the enemy heroes
NoMatchupData(in) ==
  \/ in.enemyHeroes = <<>>
  \/ in.heroId \notin DOMAIN in.store
  \/ \A k \in DOMAIN in.store[in.heroId] :
       Includes(in.enemyHeroes, in.store[in.heroId][k].hero_id)
         => in.store[in.heroId][k].games_played < 10

\* C7 (counter neutral default): the counter score of either engine is the neutral value (50)
\* when the enemy team is empty, when the hero has no matchup list, or when every matchup
\* record against the enemy heroes has fewer than 10 games.
C7_CounterNeutral ==
  probe.fn \in {"getCounterScore", "calculateCounterScore"} /\ probe.done /\ NoMatchupData(probe.in)
    => probe.out = NeutralCounter(probe.fn)

\* the enemy heroes whose matchup record has at least 10 games, in the order of the enemy list
EnoughGames(in) ==
  SelectSeq(in.enemyHeroes,
            LAMBDA e : /\ FindMatchup(in.store[in.heroId], e) # 0
                       /\ in.store[in.heroId][FindMatchup(in.store[in.heroId], e)].games_played >= 10)

\* the win rate of the hero's record against the enemy hero
RecordWinRate(in, e) ==
  LET m == in.store[in.heroId][FindMatchup(in.store[in.heroId], e)]
  IN calculateWinRate(m.wins, m.games_played)

\* C8 (counter sample threshold): getCounterScore averages the win rates of exactly the enemy
\* heroes whose matchup record has at least 10 games; a record of exactly 10 games counts, a
\* record of 9 games does not; without such a record the score is 50.
C8_SampleThreshold ==
  (/\ probe.fn = "getCounterScore" /\ probe.done
   /\ probe.in.enemyHeroes # <<>>
   /\ probe.in.heroId \in DOMAIN probe.in.store)
  => LET valid == EnoughGames(probe.in)
     IN probe.out = IF valid = <<>> THEN 5000
                    ELSE SumSeq([i \in DOMAIN valid |-> RecordWinRate(probe.in, valid[i])]) \div Len(valid)

\* the counter component of a suggestion of the route's response
ResponseCounter(s) == IF route.useAdvanced THEN s.advancedBreakdown.counter ELSE s.counter

\* C9 (counter reflects supplied matchup data): after the route has stored the fetched matchup
\* lists of the enemy heroes, the counter component of a returned suggestion is neutral only if
\* no stored record between the suggested hero and an enemy hero has at least 10 games: a
\* stored record of enough games with a win rate other than 50% moves it off the neutral value.
C9_CounterFromStore ==
  route.pc = "respond" =>
    \A i \in DOMAIN route.response :
      (\E e \in DOMAIN route.enemyHeroes :
         \E k \in DOMAIN matchupData[route.enemyHeroes[e]] :
           LET m == matchupData[route.enemyHeroes[e]][k] IN
             /\ m.hero_id = route.response[i].hero
             /\ m.games_played >= 10
             /\ calculateWinRate(m.wins, m.games_played) # 5000)
      => ResponseCounter(route.response[i])
           # NeutralCounter(IF route.useAdvanced THEN "calculateCounterScore" ELSE "getCounterScore")

FailingCandidates ==
  {h \in probe.in.failing : IsAdvancedCandidate(h, probe.in.ds, probe.in.roleFilter)}

\* the breakdown of a candidate when a failure is confined to it
isolatedBreakdown(heroId, ds, gameContext, failing) ==
  IF heroId \in failing THEN NeutralBreakdown
  ELSE calculateAdvancedScore(Hero(heroId), ds, gameContext)

\* the candidates scored one by one, each failure confined to its candidate
isolatedCandidates(candidates, ds, gameContext, failing) ==
  [i \in DOMAIN candidates |->
     scoredSuggestion(candidates[i], isolatedBreakdown(candidates[i], ds, gameContext, failing))]

\* the list the advanced analyzer returns when a failure is confined to its candidate: the
\* failing candidates carry the neutral breakdown, the others their own
isolatedSuggestions(hs, ds, gameContext, roleFilter, failing) ==
  Slice(SortByScore(isolatedCandidates(availableHeroes(hs, ds, roleFilter), ds, gameContext, failing)),
        AdvancedTop)

\* C11 (per-candidate failure isolation): when a sub-analyzer throws while one candidate is
\* scored, the returned list is the one in which that candidate carries the neutral
\* breakdown and every other candidate is scored as usual; the batch is not emptied.
C11_FailureIsolation ==
  (probe.done /\ FailingCandidates # {}) =>
    LET isolated == isolatedSuggestions(heroes, probe.in.ds, probe.in.gameContext,
                                        probe.in.roleFilter, probe.in.failing)
    IN /\ probe.fn = "getEnhancedRecommendations" => probe.out = isolated
       /\ (probe.fn = "generateAdvancedSuggestions" /\ ~probe.in.conversionThrows) =>
            probe.out = Slice([i \in DOMAIN isolated |->
                                 ConvertSuggestion(heroStats, probe.in.ds, isolated[i])],
                              probe.in.limit)

\* C12 (fallback on failure): when the advanced analysis throws during
\* DraftAnalyzer.generateAdvancedSuggestions, the call returns the basic suggestions for the
\* same draft, role filter and limit, each with the neutral breakdown, and so is not empty when
\* the basic engine has candidates.
C12_FallbackOnFailure ==
  (probe.done /\ probe.fn = "generateAdvancedSuggestions" /\ FailingCandidates # {}) =>
    probe.out = fallbackSuggestions(heroes, heroStats, matchupData, probe.in.ds,
                                    probe.in.roleFilter, probe.in.limit)

\* C13 (timing windows shape): analyzeTimingWindows returns exactly three windows, early, mid
\* and late in this order; early is [0, 12] for the aggressive playstyle and [0, 15] otherwise,
\* mid is [15, 35], late is [35, max(60, expectedDuration)] with expectedDuration 40 when
\* absent; every power level lies in [0, 1].
C13_TimingWindows ==
  (probe.done /\ probe.fn = "analyzeHero") =>
    LET w == probe.out.timingWindows
        gameContext == probe.in.gameContext
        duration == IF gameContext.expectedDuration = 0 THEN 40 ELSE gameContext.expectedDuration
    IN /\ Len(w) = 3
       /\ <<w[1].phase, w[2].phase, w[3].phase>> = <<"early", "mid", "late">>
       /\ w[1].start = 0
       /\ w[1].end = (IF gameContext.playstyle = "aggressive" THEN 12 ELSE 15)
       /\ w[2].start = 15 /\ w[2].end = 35
       /\ w[3].start = 35
       /\ w[3].end = (IF duration > 60 THEN duration ELSE 60)
       /\ \A i \in 1..3 : w[i].powerLevel >= 0 /\ w[i].powerLevel <= T(20)

\* C13 witness: a hero has been analysed for an aggressive game expected to last 75 minutes.
C13_Witness ==
  /\ probe.done /\ probe.fn = "analyzeHero"
  /\ probe.in.gameContext.playstyle = "aggressive"
  /\ probe.in.gameContext.expectedDuration = 75
  /\ probe.out.timingWindows[3].end = 75

\* the two contexts of the scenario
ContextAggressive25 == [expectedDuration |-> 25, playstyle |-> "aggressive", itemStrategy |-> "none"]

ContextScaling60 == [expectedDuration |-> 60, playstyle |-> "none", itemStrategy |-> "scaling"]

\* the phase label of the Carry build among the builds (the first build of a Carry hero)
CarryPhase(builds) == builds[1].gamePhase

\* C14 (context sensitivity): for a Carry hero the context {25 minutes, aggressive} and the
\* context {60 minutes, scaling} give Carry builds with different phase labels, and early
\* windows that end at 12 and at 15.
C14_ContextSensitivity ==
  (probe.done /\ probe.fn = "analyzeHero" /\ HasRole(Hero(probe.in.hero), "Carry")
     /\ probe.in.gameContext = ContextAggressive25) =>
    LET other == analyzeHero(Hero(probe.in.hero), ContextScaling60)
    IN /\ CarryPhase(probe.out.itemBuilds) # CarryPhase(other.itemBuilds)
       /\ probe.out.timingWindows[1].end = 12
       /\ other.timingWindows[1].end = 15

\* C14 witness: a Carry hero has been analysed under the aggressive 25-minute context.
C14_Witness ==
  /\ probe.done /\ probe.fn = "analyzeHero"
  /\ HasRole(Hero(probe.in.hero), "Carry")
  /\ probe.in.gameContext = ContextAggressive25
  /\ CarryPhase(probe.out.itemBuilds) = "early"

\* the role classes of the pair synergy
SupportClass == {"Support", "Disabler"}

CoreClass == {"Carry", "Nuker", "Pusher"}

\* the roles of a hero as a set
RoleSet(h) == {h.roles[i] : i \in DOMAIN h.roles}

\* the pair synergy as stated: 0.5, plus 0.2 for a Support-class first hero with a Core-class
\* second hero, plus 0.05 for different attack types
StatedPairSynergy(a, b) ==
  T(10) + (IF RoleSet(a) \cap SupportClass # {} /\ RoleSet(b) \cap CoreClass # {} THEN T(4) ELSE 0)
        + (IF a.attack_type # b.attack_type THEN T(1) ELSE 0)

\* the index pairs i < j of a list
IndexPairs(q) == {p \in (DOMAIN q) \X (DOMAIN q) : p[1] < p[2]}

RECURSIVE StatedPairTotal(_, _)
\* the sum of the stated pair synergy over a set of index pairs of the list q
StatedPairTotal(q, pairs) ==
  IF pairs = {} THEN 0
  ELSE LET p == CHOOSE x \in pairs : TRUE
       IN StatedPairSynergy(Hero(q[p[1]]), Hero(q[p[2]])) + StatedPairTotal(q, pairs \ {p})

\* C15 (pairwise synergy formula): predictHeroSynergy(a, b) is 0.5, plus 0.2 if a has a
\* Support-class role and b a Core-class role, plus 0.05 if the attack types differ, and lies
\* in [0, 1]; predictTeamSynergy is the average of it over the index pairs i < j, and 0.5 for
\* fewer than two heroes.
C15_PairSynergy ==
  /\ (probe.done /\ probe.fn = "predictHeroSynergy") =>
       /\ probe.out = StatedPairSynergy(Hero(probe.in.hero1), Hero(probe.in.hero2))
       /\ probe.out >= 0 /\ probe.out <= T(20)
  /\ (probe.done /\ probe.fn = "predictTeamSynergy") =>
       IF Len(probe.in.heroes) < 2 THEN probe.out = T(10)
       ELSE probe.out * Cardinality(IndexPairs(probe.in.heroes))
              = StatedPairTotal(probe.in.heroes, IndexPairs(probe.in.heroes))

\* C15 witness: the team synergy of three heroes has been computed, with a pair that earns
\* the role bonus and a pair that does not.
C15_Witness ==
  /\ probe.done /\ probe.fn = "predictTeamSynergy"
  /\ Len(probe.in.heroes) = 3
  /\ probe.out > T(10) + T(1)
  /\ probe.out < T(10) + T(4)

\* the lists with the same heroes as q, in any order
Reorderings(q) ==
  {r \in SynergyTeams : Len(r) = Len(q) /\ {r[i] : i \in DOMAIN r} = {q[i] : i \in DOMAIN q}}

\* C16 (symmetric synergy bonus): a Support candidate joining a team with a Carry gets the
\* same synergy as that Carry as candidate joining a team with that Support, and the team
\* synergy does not depend on the order in which the heroes are listed.
C16_SymmetricSynergy ==
  /\ (probe.done /\ probe.fn = "calculateSynergyScore" /\ Len(probe.in.yourTeam) = 1
        /\ HasRole(Hero(probe.in.hero), "Support")
        /\ HasRole(Hero(probe.in.yourTeam[1]), "Carry")) =>
       probe.out = calculateSynergyScore(Hero(probe.in.yourTeam[1]), <<probe.in.hero>>)
  /\ (probe.done /\ probe.fn = "predictTeamSynergy") =>
       \A r \in Reorderings(probe.in.heroes) : predictTeamSynergy(r) = probe.out

\* the slots of both teams, yourTeam first
AllSlots(ds) == ds.yourTeam \o ds.enemyTeam

\* C17 (draft uniqueness): in every draft state reached from the empty draft by grid
\* selections, selections of a suggestion, removals, resets and delayed suggestion refreshes,
\* each hero id occupies at most one slot across yourTeam and enemyTeam.
C17_DraftUniqueness ==
  \A i, j \in DOMAIN AllSlots(draftState) :
    (i # j /\ AllSlots(draftState)[i] # NoHero) => AllSlots(draftState)[i] # AllSlots(draftState)[j]

\* the picks a draft has room for
TotalPicks == 2 * TeamSize

\* C18 (draft phase transition): once the ten picks have been made through addHeroToTeam
\* the draft's currentPhase is completed; it is pick while fewer than ten have been made.
C18_PhaseTransition ==
  /\ FilledSlots(draftState) = TotalPicks => draftState.currentPhase = "completed"
  /\ FilledSlots(draftState) < TotalPicks => draftState.currentPhase = "pick"

ItemSynergyWithoutStrategy ==
  calculateAdvancedScore(Hero(probe.in.hero), probe.in.ds,
                         [probe.in.gameContext EXCEPT !.itemStrategy = "none"]).itemSynergy

\* C20 (item-synergy contextual bonus): on the advanced path the item-synergy component of
\* a Support candidate is strictly higher with itemStrategy early than with no item strategy,
\* and that of a Carry candidate strictly higher with itemStrategy scaling than with none.
C20_ItemSynergyBonus ==
  (probe.done /\ probe.fn = "calculateAdvancedScore") =>
    /\ (HasRole(Hero(probe.in.hero), "Support") /\ probe.in.gameContext.itemStrategy = "early")
         => probe.out.itemSynergy > ItemSynergyWithoutStrategy
    /\ (HasRole(Hero(probe.in.hero), "Carry") /\ probe.in.gameContext.itemStrategy = "scaling")
         => probe.out.itemSynergy > ItemSynergyWithoutStrategy

\* the last fetch for the enemy hero of the i-th fetch (forEach stores the results in order,
\* a later list of the same hero replaces an earlier one)
LastFetchOf(i) ==
  CHOOSE j \in DOMAIN route.enemyHeroes :
    /\ route.enemyHeroes[j] = route.enemyHeroes[i]
    /\ \A k \in DOMAIN route.enemyHeroes : route.enemyHeroes[k] = route.enemyHeroes[i] => k <= j

\* C21 (store populated before scoring, partial fetch failure): once the route has passed the
\* store step, and so whenever suggestions are generated or returned, every matchup fetch has
\* completed and the store holds, for every enemy hero, the transformed list of its fetch (the
\* empty list for a failed fetch); a failed fetch leaves the other heroes' lists stored and the
\* request on its way to a response.
C21_StoreBeforeScoring ==
  route.pc \in {"stored", "respond"} =>
    \A i \in DOMAIN route.results :
      /\ route.results[i].state = "done"
      /\ route.enemyHeroes[i] \in DOMAIN matchupData
      /\ matchupData[route.enemyHeroes[i]] = transformMatchupData(route.results[LastFetchOf(i)].matchups)

\* C21 witness: a response is ready after one enemy hero's fetch failed and another's
\* succeeded, and the list of the other is in the store.
C21_Witness ==
  /\ route.pc = "respond"
  /\ route.response # <<>>
  /\ \E i, j \in DOMAIN route.results :
       /\ route.results[i].failed
       /\ ~route.results[j].failed
       /\ matchupData[route.enemyHeroes[j]] # <<>>

\* the canonical position of a role the hero is tagged with
OwnRolePosition(hero, position) ==
  \/ position = 1 /\ HasRole(hero, "Carry")
  \/ position = 2 /\ HasRole(hero, "Nuker")
  \/ position = 3 /\ HasRole(hero, "Initiator")
  \/ position = 5 /\ HasRole(hero, "Support")

TeamRoleTags(team) == UNION {RoleSet(Hero(team[i])) : i \in DOMAIN team}

\* two heroes with the same role tags and the same primary attribute
SameProfile(a, b) ==
  RoleSet(Hero(a)) = RoleSet(Hero(b)) /\ Hero(a).primary_attr = Hero(b).primary_attr

QueuedIds == {id \in DOMAIN env.promises : env.promises[id].queued}

\* the step rejects a queued request for good
FinallyRejected ==
  \E id \in DOMAIN env.promises :
    env.promises[id].status = "pending" /\ env'.promises[id].status = "rejected"

\* the step resolves a queued request
Succeeded ==
  \E id \in DOMAIN env.promises :
    env.promises[id].status = "pending" /\ env'.promises[id].status = "resolved"

\* the step is a request() call
Called == Len(env'.promises) = Len(env.promises) + 1

\* the breaker is OPEN and its timeout has not passed since the last failure
OpenAndBlocking(c, e) ==
  /\ c.circuitBreaker.state = "OPEN"
  /\ e.now - c.circuitBreaker.lastFailureTime < Ticks(circuitBreakerTimeout)

\* C24 (circuit breaker transitions): the breaker starts CLOSED; it becomes OPEN exactly
\* when a queued request is rejected for good and the failure count has reached the
\* threshold; it leaves OPEN only for HALF_OPEN, at a request() call made when the timeout
\* has passed since the last failure; it leaves HALF_OPEN for CLOSED, with the failure count
\* reset to 0, at the next resolved request; no other transition occurs.
C24_CircuitBreaker ==
  /\ client.circuitBreaker.state = "CLOSED"
  /\ [][/\ client'.circuitBreaker.state # client.circuitBreaker.state =>
             \/ /\ client'.circuitBreaker.state = "OPEN"
                /\ FinallyRejected
                /\ client'.circuitBreaker.failures >= circuitBreakerThreshold
             \/ /\ client.circuitBreaker.state = "OPEN"
                /\ client'.circuitBreaker.state = "HALF_OPEN"
                /\ Called
                /\ ~OpenAndBlocking(client, env)
             \/ /\ client.circuitBreaker.state = "HALF_OPEN"
                /\ client'.circuitBreaker.state = "CLOSED"
                /\ client'.circuitBreaker.failures = 0
                /\ Succeeded
        /\ (FinallyRejected /\ client'.circuitBreaker.failures >= circuitBreakerThreshold)
             => client'.circuitBreaker.state = "OPEN"
        /\ (Called /\ client.circuitBreaker.state = "OPEN" /\ ~OpenAndBlocking(client, env))
             => client'.circuitBreaker.state = "HALF_OPEN"
        /\ (Succeeded /\ client.circuitBreaker.state = "HALF_OPEN")
             => client'.circuitBreaker.state = "CLOSED" /\ client'.circuitBreaker.failures = 0
     ]_vars

\* C24 witness: the breaker is CLOSED again with no failure on record after as many queued
\* requests as the threshold were rejected: it has gone through OPEN and HALF_OPEN.
C24_Witness ==
  /\ client.circuitBreaker.state = "CLOSED"
  /\ client.circuitBreaker.failures = 0
  /\ Cardinality({id \in QueuedIds : env.promises[id].status = "rejected"}) >= circuitBreakerThreshold

\* the step starts the fetch of a request
FetchStarts == client.processor.pc # "fetching" /\ client'.processor.pc = "fetching"

\* C25 (open circuit blocks traffic): while the breaker is OPEN and its timeout has not
\* passed, a request() call is rejected with 503 and leaves the queue as it is, and no
\* fetch is started, also not for a request that was queued before the breaker opened.
C25_OpenBlocksTraffic ==
  [][/\ (Called /\ OpenAndBlocking(client, env)) =>
          /\ env'.promises[Len(env'.promises)].status = "rejected"
          /\ env'.promises[Len(env'.promises)].error = 503
          /\ client'.requestQueue = client.requestQueue
     /\ FetchStarts => ~OpenAndBlocking(client', env')
    ]_vars

\* C26 (request deduplication): no request is queued or in flight together with an earlier
\* request of the same key that is still queued or in flight.
C26_Deduplication ==
  \A i, j \in QueuedIds :
    (i < j /\ env.promises[i].key = env.promises[j].key)
      => ~(env.promises[i].status = "pending" /\ env.promises[j].status = "pending")

\* the errors after which a request is retried: network error, timeout, 5xx
Retryable(statusCode) == statusCode = 0 \/ statusCode = 408 \/ statusCode >= 500

\* C27 (bounded retry): a queued request is fetched at most maxRetries + 1 = 4 times; a
\* further fetch of it follows only a network error, a timeout or a 5xx response; a 4xx
\* response other than 408 rejects it at once; the failure count of the breaker goes up by
\* one with each final rejection and is left alone by an attempt that is retried.
C27_BoundedRetry ==
  /\ [](\A id \in DOMAIN env.promises : env.promises[id].attempts <= maxRetries + 1)
  /\ [][\A id \in DOMAIN env.promises :
          /\ (env'.promises[id].attempts = env.promises[id].attempts + 1 /\ env.promises[id].attempts >= 1)
               => Retryable(env.promises[id].error)
          /\ (/\ client.processor.pc = "fetching" /\ client.processor.request.id = id
              /\ client'.processor.pc # "fetching"
              /\ env'.promises[id].error \in 400..499 \ {408})
               => env'.promises[id].status = "rejected"
          /\ (client.processor.pc = "fetching" /\ client'.processor.pc = "retrySleep")
               => client'.circuitBreaker.failures = client.circuitBreaker.failures
          /\ (env.promises[id].status = "pending" /\ env'.promises[id].status = "rejected")
               => client'.circuitBreaker.failures = client.circuitBreaker.failures + 1
       ]_vars

\* C27 witness: a request has been rejected after its fourth fetch, and that rejection is
\* the only failure the breaker has counted.
C27_Witness ==
  /\ client.circuitBreaker.failures = 1
  /\ \E id \in QueuedIds :
       env.promises[id].status = "rejected" /\ env.promises[id].attempts = maxRetries + 1

\* C28 (rate limit): in a rate-limit window the processor starts at most MAX_REQUESTS
\* fetches, retries and fetches that end in a network error or a timeout included; the
\* fetch after the last one allowed is started in a later window.
C28_RateLimit ==
  env.windowAttempts <= MAX_REQUESTS

\* C28 witness: MAX_REQUESTS fetches were started in the current window, one of them has
\* ended without a response and is not in the client's request counter.
C28_Witness ==
  /\ env.windowAttempts = MAX_REQUESTS
  /\ client.rateLimitState.requestCount < MAX_REQUESTS
  /\ client.processor.pc \in {"delay", "retrySleep"}

\* C29 (queue bound and order): the queue never holds more than maxQueueSize entries and is
\* ordered by non-increasing priority, first in first out among equal priorities.
C29_QueueBoundAndOrder ==
  /\ Len(client.requestQueue) <= maxQueueSize
  /\ \A i, j \in DOMAIN client.requestQueue :
       i < j => /\ client.requestQueue[i].priority >= client.requestQueue[j].priority
                /\ client.requestQueue[i].priority = client.requestQueue[j].priority
                     => client.requestQueue[i].id < client.requestQueue[j].id

\* C30 (every accepted request settles): whenever the queue is not empty a queue processor
\* is at work on it, so that every queued request is resolved or rejected in the end.
C30_NoLostWakeup ==
  client.requestQueue # <<>> =>
    client.processor.pc \in {"fetching", "retrySleep", "delay", "rateWait"}

====
